---------------------------- MODULE Spec2Model ----------------------------
(***************************************************************************)
(* Vortex deployment: the elevated link worker (remoteCode) and the        *)
(* orchestrator's remove-mod / undeploy chain, modelled from               *)
(* src/unnamed/part_001, and the download file assembler, modelled from    *)
(* src/src/extensions/download_management/FileAssembler.ts.                *)
(***************************************************************************)
EXTENDS Integers, Sequences, FiniteSets, TLC

(***************************************************************************)
(* Bounds of the model.                                                    *)
(***************************************************************************)
\* number of link-file / remove-link requests the caller sends
MaxReq == 2
\* number of unrecognised messages the caller sends
MaxUnknown == 1
\* number of quit messages the caller sends
MaxQuit == 1
\* number of filesystem attempts the environment makes fail
MaxFaults == 6
\* number of remove-mod events the orchestrator receives
MaxRemove == 2
\* number of failures the environment injects into the remove-mod operations
MaxRmFaults == 3
\* number of times the user picks 'Browse...' in one activation
MaxBrowse == 2
\* number of operations submitted to the FileAssembler, retried chunks included
MaxOps == 4
\* number of calls of the FileAssembler the environment makes fail
MaxFaFaults == 2

(***************************************************************************)
(* Program constants of the worker.                                        *)
(***************************************************************************)
\* const doFS = (op, tries: number = 5)
DefaultTries == 5
\* delayed(100)
RetryDelayMs == 100

RETRY_ERRORS == {"EPERM", "EBUSY", "EIO", "EBADF", "UNKNOWN"}

Nums == 1..MaxReq
Dests == {"fileA"}
\* what lstat can find at a destination path
Kinds == {"none", "symlink", "file", "dir"}
\* error codes the environment injects into filesystem attempts
FaultCodes == {"EBUSY", "EPERM", "EISDIR"}

VARIABLES
  \* ---- filesystem seen by the worker
  fsKind,      \* [Dests -> Kinds]: what is at the destination path
  dirExists,   \* [Dests -> BOOLEAN]: path.dirname(destination) exists
  tagFile,     \* [Dests -> BOOLEAN]: TAG_NAME file present in that directory
  \* ---- worker
  req,         \* [Nums -> request record]: the handler chains in flight
  nextNum,     \* next sequence number the caller will use
  completed,   \* sequence of emitted 'completed' payloads [err, num]
  reports,     \* number of emitted 'report' 'not-supported' events
  logs,        \* [level -> number of emitted 'log' events]
  connected,   \* FALSE once the channel has disconnected (promise resolved)
  unknownSent, \* number of unrecognised messages received so far
  quitSent,    \* number of quit messages received so far
  faults       \* number of attempts the environment has made fail

workerVars == <<fsKind, dirExists, tagFile, req, nextNum, completed, reports,
                logs, connected, unknownSent, quitSent, faults>>

VARIABLES
  \* ---- orchestrator (one game, one mod type)
  mods,             \* [ModIds -> mod state]: state.persistent.mods[gameMode]
  installationPath, \* [ModIds -> path or "undefined"]: mod.installationPath
  enabled,          \* [ModIds -> BOOLEAN]: enabled in the last active profile
  staged,           \* [ModIds -> BOOLEAN]: the mod's staged files are on disk
  manifest,         \* persisted activation manifest: the mods that own entries
  setup,            \* discovery / activator configuration of the game
  rm,               \* [Removes -> record]: the onRemoveMod promise chains
  nextRm,           \* next remove-mod event
  activity          \* running 'mods' activities (startActivity / stopActivity)

orchVars == <<mods, installationPath, enabled, staged, manifest, setup, rm, nextRm,
              activity>>

VARIABLES
  \* ---- orchestrator: game-mode-activated, paths-changed, add-mod
  dirs,             \* [StagingDirs -> tag file of the directory, or "nodir"]
  home,             \* [ModIds -> the staging directory the mod was staged in]
  instPath,         \* settings: the staging folder of the game (installPath)
  activator,        \* settings.mods.activator[gameId]: a method id or "undefined"
  methods,          \* the deployment methods known for the game
  notes,            \* error notifications shown: set of [title, code, allowReport]
  ga,               \* the promise chain of onGameModeActivated
  pr,               \* the promise chain of onPathsChanged
  am                \* mods whose ensureDirAsync of onAddMod is pending

actVars == <<dirs, home, instPath, activator, methods, notes, ga, pr, am>>

VARIABLES
  \* ---- FileAssembler (one instance, after create())
  faOps,            \* [Ops -> record]: the chains the method calls put on mWork
  nextOp,           \* next method call
  mWork,            \* this.mWork: the operation whose chain it is, 0 = Promise.resolve()
  mFD,              \* this.mFD: "fd" or "undefined"
  fdOpen,           \* the descriptor the assembler opened last is open
  mFileName,
  mTotalSize,
  mWritten,
  mLastFlushedTime, \* 0 until the first flush
  faFaults          \* number of calls the environment has made fail

faVars == <<faOps, nextOp, mWork, mFD, fdOpen, mFileName, mTotalSize, mWritten,
            mLastFlushedTime, faFaults>>

vars == <<workerVars, orchVars, actVars, faVars>>

IdleReq ==
  [message |-> "none", destination |-> "fileA", pc |-> "idle", phase |-> "idle",
   tries |-> 0, stats |-> "none",
   \* history of the request, read by the properties only
   found |-> "none",      \* what was at the destination when the request arrived
   preceded |-> 0,        \* unrecognised and quit messages received before the request
   attempts |-> 0,        \* attempts of the current doFS operation settled so far
   delays |-> 0,          \* retry delays the request has waited through
   ops |-> 0,             \* doFS operations the request has started
   firstErr |-> "null",   \* code of the first failed attempt of the current operation
   finalErr |-> "null",   \* code of the failed attempt that ended the request
   onlyBusy |-> TRUE,     \* every failed attempt so far failed with EBUSY
   late |-> FALSE,        \* an operation still failed on its sixth attempt
   exhausted |-> FALSE,   \* the request ended on a transient error out of retries
   created |-> "none",    \* ensureDir reported a created directory: "yes" or "no"
   tagged |-> FALSE,      \* the request wrote the TAG_NAME file
   cleared |-> FALSE,     \* fs.remove(destination) before the first symlink resolved
   symlinks |-> 0,        \* doFS(() => fs.symlink(...)) operations started
   firstLink |-> "none",  \* how the first of them ended: "ok" or an error code
   linked |-> FALSE,      \* a symlink call of the request succeeded
   removed |-> FALSE,     \* a remove call of the request succeeded
   reported |-> FALSE]    \* the request emitted 'report' 'not-supported'

\* filesystem operation run at each position of a handler chain
OpOf(pc) ==
  CASE pc = "ensureDir"   -> "ensureDir"
    [] pc = "writeTag"    -> "writeFile"
    [] pc = "removeDest"  -> "remove"
    [] pc = "symlink1"    -> "symlink"
    [] pc = "removeStale" -> "remove"
    [] pc = "symlink2"    -> "symlink"
    [] pc = "lstat"       -> "lstat"
    [] pc = "unlink"      -> "remove"
    [] OTHER              -> "none"

\* positions whose operation is wrapped in doFS
DoFSPcs == {"writeTag", "removeDest", "symlink1", "removeStale", "symlink2",
            "lstat", "unlink"}

\* what the operation yields on the current filesystem when nothing is injected
NaturalResult(op, d) ==
  CASE op = "symlink" -> IF fsKind[d] = "none" THEN "ok" ELSE "EEXIST"
    [] op = "lstat"   -> IF fsKind[d] = "none" THEN "ENOENT" ELSE "ok"
    [] OTHER          -> "ok"

Result(op, d, out) == IF out = "ok" THEN NaturalResult(op, d) ELSE out

\* if (RETRY_ERRORS.has(err.code) && (tries > 0))
ShouldRetryOff(code, tries) == code \in RETRY_ERRORS /\ tries >= 0
ShouldRetryFewer(code, tries) == code \in RETRY_ERRORS /\ tries > 1
ShouldRetry(code, tries) == code \in RETRY_ERRORS /\ tries > 0

\* the 'link-file' chain removing and creating again after every EEXIST
LinkFileContinueEveryEexist(pc, res, created) ==
  CASE pc = "ensureDir"   -> IF res # "ok" THEN "fail"
                             ELSE IF created THEN "writeTag" ELSE "removeDest"
    [] pc = "writeTag"    -> IF res = "ok" THEN "symlink1" ELSE "fail"
    [] pc = "removeDest"  -> IF res \in {"ok", "ENOENT"} THEN "symlink1" ELSE "fail"
    [] pc = "symlink1"    -> IF res = "ok" THEN "success"
                             ELSE IF res = "EEXIST" THEN "removeStale" ELSE "fail"
    [] pc = "removeStale" -> IF res = "ok" THEN "symlink2" ELSE "fail"
    [] pc = "symlink2"    -> IF res = "ok" THEN "success"
                             ELSE IF res = "EEXIST" THEN "removeStale" ELSE "fail"
    [] OTHER              -> "fail"

\* the 'link-file' chain with the tag written whether or not the directory is new
LinkFileContinueTagAlways(pc, res, created) ==
  CASE pc = "ensureDir"   -> IF res # "ok" THEN "fail" ELSE "writeTag"
    [] pc = "writeTag"    -> IF res = "ok" THEN "symlink1" ELSE "fail"
    [] pc = "symlink1"    -> IF res = "ok" THEN "success"
                             ELSE IF res = "EEXIST" THEN "removeStale" ELSE "fail"
    [] pc = "removeStale" -> IF res = "ok" THEN "symlink2" ELSE "fail"
    [] pc = "symlink2"    -> IF res = "ok" THEN "success" ELSE "fail"
    [] OTHER              -> "fail"

\* the then/catch chain of the 'link-file' handler: where the chain goes once the
\* operation at pc has settled with res ("ok" or an error code)
LinkFileContinue(pc, res, created) ==
  CASE pc = "ensureDir"   -> IF res # "ok" THEN "fail"
                             ELSE IF created THEN "writeTag" ELSE "removeDest"
    [] pc = "writeTag"    -> IF res = "ok" THEN "symlink1" ELSE "fail"
    [] pc = "removeDest"  -> IF res \in {"ok", "ENOENT"} THEN "symlink1" ELSE "fail"
    [] pc = "symlink1"    -> IF res = "ok" THEN "success"
                             ELSE IF res = "EEXIST" THEN "removeStale" ELSE "fail"
    [] pc = "removeStale" -> IF res = "ok" THEN "symlink2" ELSE "fail"
    [] pc = "symlink2"    -> IF res = "ok" THEN "success" ELSE "fail"
    [] OTHER              -> "fail"

\* if (stats.isSymbolicLink()) return doFS(() => fs.remove(destination))
AfterLstatAlways(stats) == "unlink"
AfterLstat(stats) == IF stats = "symlink" THEN "unlink" ELSE "success"

\* the 'remove-link' chain taking a destination that is already gone for removed
RemoveLinkContinueMissingOk(pc, res, stats) ==
  CASE pc = "lstat"  -> IF res = "ok" THEN AfterLstat(stats)
                        ELSE IF res = "ENOENT" THEN "success" ELSE "fail"
    [] pc = "unlink" -> IF res = "ok" THEN "success" ELSE "fail"
    [] OTHER         -> "fail"

\* the then/catch chain of the 'remove-link' handler
RemoveLinkContinue(pc, res, stats) ==
  CASE pc = "lstat"  -> IF res = "ok" THEN AfterLstat(stats) ELSE "fail"
    [] pc = "unlink" -> IF res = "ok" THEN "success" ELSE "fail"
    [] OTHER         -> "fail"

Continue(message, pc, res, created, stats) ==
  IF message = "link-file" THEN LinkFileContinue(pc, res, created)
                           ELSE RemoveLinkContinue(pc, res, stats)

\* emit('completed', { err, num }) of the 'link-file' handler
LinkFileCompletedFirstNum(err, num) == [err |-> err, num |-> 1]
LinkFileCompletedNoErr(err, num) == [err |-> "null", num |-> num]
LinkFileCompleted(err, num) == [err |-> err, num |-> num]

\* emit('completed', { err: { code: err.code, ... }, num }) of 'remove-link'
RemoveLinkCompletedTwice(err, num) == << [err |-> err, num |-> num], [err |-> err, num |-> num] >>
RemoveLinkCompleted(err, num) == << [err |-> err, num |-> num] >>

\* the filesystem after operation op on destination d succeeded
FsAfter(op, d) ==
  CASE op = "remove"  -> [fsKind EXCEPT ![d] = "none"]
    [] op = "symlink" -> [fsKind EXCEPT ![d] = "symlink"]
    [] OTHER          -> fsKind

\* ipcClient.on('message'): handlers['link-file'](payload) up to fs.ensureDir being issued
WorkerInit ==
  /\ dirExists \in [Dests -> BOOLEAN]
  /\ fsKind \in {f \in [Dests -> Kinds] : \A d \in Dests : ~dirExists[d] => f[d] = "none"}
  /\ tagFile = [d \in Dests |-> FALSE]
  /\ req = [n \in Nums |-> IdleReq]
  /\ nextNum = 1
  /\ completed = << >>
  /\ reports = 0
  /\ logs = [debug |-> 0, error |-> 0]
  /\ connected = TRUE
  /\ unknownSent = 0
  /\ quitSent = 0
  /\ faults = 0

ReceiveLinkFile(d) ==
  /\ connected
  /\ nextNum <= MaxReq
  /\ req' = [req EXCEPT ![nextNum] =
               [IdleReq EXCEPT !.message = "link-file", !.destination = d,
                               !.pc = "ensureDir", !.phase = "inflight",
                               !.found = fsKind[d],
                               !.preceded = unknownSent + quitSent]]
  /\ nextNum' = nextNum + 1
  /\ UNCHANGED <<fsKind, dirExists, tagFile, completed, reports, logs, connected,
                 unknownSent, quitSent, faults>>
  /\ UNCHANGED <<orchVars, actVars, faVars>>

\* ipcClient.on('message'): handlers['remove-link'](payload) up to doFS(lstat) being issued
ReceiveRemoveLink(d) ==
  /\ connected
  /\ nextNum <= MaxReq
  /\ req' = [req EXCEPT ![nextNum] =
               [IdleReq EXCEPT !.message = "remove-link", !.destination = d,
                               !.pc = "lstat", !.phase = "inflight",
                               !.tries = DefaultTries, !.ops = 1,
                               !.found = fsKind[d],
                               !.preceded = unknownSent + quitSent]]
  /\ nextNum' = nextNum + 1
  /\ UNCHANGED <<fsKind, dirExists, tagFile, completed, reports, logs, connected,
                 unknownSent, quitSent, faults>>
  /\ UNCHANGED <<orchVars, actVars, faVars>>

\* handlers.quit: no action
ReceiveQuitDisconnects ==
  /\ connected
  /\ quitSent < MaxQuit
  /\ quitSent' = quitSent + 1
  /\ connected' = FALSE
  /\ UNCHANGED <<fsKind, dirExists, tagFile, req, nextNum, completed, reports, logs,
                 unknownSent, faults>>
  /\ UNCHANGED <<orchVars, actVars, faVars>>
ReceiveQuit ==
  /\ connected
  /\ quitSent < MaxQuit
  /\ quitSent' = quitSent + 1
  /\ UNCHANGED <<fsKind, dirExists, tagFile, req, nextNum, completed, reports, logs,
                 connected, unknownSent, faults>>
  /\ UNCHANGED <<orchVars, actVars, faVars>>

\* a message with no handler: one 'log' event of level error
ReceiveUnknown ==
  /\ connected
  /\ unknownSent < MaxUnknown
  /\ unknownSent' = unknownSent + 1
  /\ logs' = [logs EXCEPT !.error = @ + 1]
  /\ UNCHANGED <<fsKind, dirExists, tagFile, req, nextNum, completed, reports,
                 connected, quitSent, faults>>
  /\ UNCHANGED <<orchVars, actVars, faVars>>

\* ipcClient.on('disconnect'): resolve()
Disconnect ==
  /\ connected
  /\ \A n \in Nums : req[n].phase = "idle"
  /\ connected' = FALSE
  /\ UNCHANGED <<fsKind, dirExists, tagFile, req, nextNum, completed, reports, logs,
                 unknownSent, quitSent, faults>>
  /\ UNCHANGED <<orchVars, actVars, faVars>>

\* One filesystem attempt of request n is issued and settles; when it follows a failed
\* attempt, this is delayed(100).then(() => doFS(op, tries - 1)): the timer fires, op()
\* is issued again and settles. out = "ok" lets the operation run on the filesystem,
\* any other value is the error code the environment makes the attempt fail with.
FsOpSettles(n, out) ==
  LET r       == req[n]
      d       == r.destination
      op      == OpOf(r.pc)
      res     == Result(op, d, out)
      failed  == res # "ok"
      created == ~dirExists[d]
      stats   == IF op = "lstat" /\ ~failed THEN fsKind[d] ELSE r.stats
      retry   == r.pc \in DoFSPcs /\ failed /\ ShouldRetry(res, r.tries)
      to      == Continue(r.message, r.pc, res, created, stats)
      \* history kept for the properties
      h       == [r EXCEPT !.attempts = @ + 1,
                           !.stats = stats,
                           !.firstErr = IF failed /\ r.attempts = 0 THEN res ELSE @,
                           !.onlyBusy = @ /\ (failed => res = "EBUSY"),
                           !.late = @ \/ (failed /\ r.attempts >= DefaultTries),
                           !.created = IF op = "ensureDir" /\ ~failed
                                         THEN IF created THEN "yes" ELSE "no"
                                         ELSE @,
                           !.tagged = @ \/ (op = "writeFile" /\ ~failed),
                           !.cleared = @ \/ (r.pc = "removeDest" /\ res \in {"ok", "ENOENT"}),
                           !.firstLink = IF r.pc = "symlink1" /\ ~retry THEN res ELSE @,
                           !.linked = @ \/ (op = "symlink" /\ ~failed),
                           !.removed = @ \/ (op = "remove" /\ ~failed)]
  IN
  /\ r.phase = "inflight"
  /\ out # "ok" => faults < MaxFaults
  /\ faults' = IF out = "ok" THEN faults ELSE faults + 1
  /\ fsKind' = IF failed THEN fsKind ELSE FsAfter(op, d)
  /\ dirExists' = IF op = "ensureDir" /\ ~failed THEN [dirExists EXCEPT ![d] = TRUE]
                  ELSE dirExists
  /\ tagFile' = IF op = "writeFile" /\ ~failed THEN [tagFile EXCEPT ![d] = TRUE]
                ELSE tagFile
  /\ IF retry
       THEN /\ req' = [req EXCEPT ![n] = [h EXCEPT !.tries = @ - 1, !.delays = @ + 1]]
            /\ UNCHANGED <<completed, reports, logs>>
       ELSE IF to \in {"success", "fail"}
         THEN LET err == IF to = "success" THEN "null" ELSE res
                  msgs == IF r.message = "link-file"
                            THEN << LinkFileCompleted(err, n) >>
                            ELSE RemoveLinkCompleted(err, n)
              IN
              /\ req' = [req EXCEPT ![n] =
                          [h EXCEPT !.pc = "done", !.phase = "idle", !.tries = 0, !.attempts = 0,
                                    !.finalErr = IF failed THEN res ELSE "null",
                                    !.exhausted = failed /\ res \in RETRY_ERRORS
                                                  /\ r.pc \in DoFSPcs,
                                    !.reported = (r.message = "link-file" /\ err = "EISDIR")]]
              /\ completed' = completed \o msgs
              /\ reports' = IF r.message = "link-file" /\ err = "EISDIR"
                              THEN reports + 1 ELSE reports
              /\ logs' = IF r.message # "link-file" THEN logs
                         ELSE IF err = "null" THEN [logs EXCEPT !.debug = @ + 1]
                         ELSE IF err = "EISDIR" THEN logs
                         ELSE [logs EXCEPT !.error = @ + 1]
         ELSE \* the chain goes on with the next operation, wrapped in a fresh doFS
              /\ req' = [req EXCEPT ![n] =
                          [h EXCEPT !.pc = to, !.phase = "inflight",
                                    !.tries = DefaultTries, !.attempts = 0,
                                    !.firstErr = "null", !.ops = @ + 1,
                                    !.symlinks = IF OpOf(to) = "symlink" THEN @ + 1
                                                 ELSE @]]
              /\ logs' = IF r.pc = "ensureDir" /\ created
                           THEN [logs EXCEPT !.debug = @ + 1] ELSE logs
              /\ UNCHANGED <<completed, reports>>
  /\ UNCHANGED <<nextNum, connected, unknownSent, quitSent>>
  /\ UNCHANGED <<orchVars, actVars, faVars>>

Outcomes == {"ok"} \cup FaultCodes

\* fs.symlink finds the destination taken by a file that appeared in the meantime
\* (the first failure the environment injects)
SymlinkRace(n) ==
  /\ req[n].pc \in {"symlink1", "symlink2"}
  /\ faults = 0
  /\ FsOpSettles(n, "EEXIST")

(***************************************************************************)
(* The orchestrator: onRemoveMod and undeploy.                             *)
(***************************************************************************)
Removes == 1..MaxRemove
ModIds == {"m1", "m2", "m3"}
\* rejections of the deployment method, the activation store and getNormalizeFunc
StepErrors == {"ENOTFOUND", "ENOENT", "TemporaryError", "UserCanceled"}
\* rejections of fs.removeAsync on the staged files
RemoveErrors == {"ENOTEMPTY", "ENOENT", "EPERM"}
\* discovery and deployment method of the game:
\*   "ok"            discovered, a method with cancel() is active, the mod type has a path
\*   "noCancel"      as "ok", the method defines no cancel()
\*   "undiscovered"  discovery or discovery.path undefined
\*   "noActivator"   no deployment method found
\*   "noDeployPath"  modPaths[mod.type] undefined
Setups == {"ok", "noCancel", "undiscovered", "noActivator", "noDeployPath"}

IdleRm ==
  [mod |-> "m1", hasCb |-> FALSE, pc |-> "idle",
   lastActivation |-> {},   \* what loadActivation returned
   context |-> {},          \* the method's pending deployment (prepare .. finalize)
   newActivation |-> {},    \* what finalize returned
   \* history of the request, read by the properties only
   arrival |-> "none",      \* the mod's state when the event arrived
   cycle |-> FALSE,         \* the undeploy chain was started
   atStart |-> {},          \* the persisted manifest when the cycle started
   atFail |-> {},           \* the persisted manifest when the cycle rejected
   stage |-> "none",        \* last step of the undeploy chain that succeeded
   calls |-> << >>,         \* deployment method calls made, in order
   undeployErr |-> "none",  \* "null": undeploy() resolved; else what it rejected with
   stepErr |-> "none",      \* what the failed step of the chain rejected with
   cancelRes |-> "none",    \* how activator.cancel ended when .tapCatch called it
   unhandled |-> FALSE,     \* a rejected promise was left without a handler
   recovery |-> "none",     \* answer to the 'Mod not found' dialog
   deployErr |-> "none",    \* what the 'deploy-mods' callback was called with
   deletes |-> 0,           \* fs.removeAsync attempts on the staged files
   deleteRes |-> "none",    \* how the last fs.removeAsync settled
   firstDelete |-> "none",  \* how the first fs.removeAsync settled
   saves |-> 0,             \* saveActivation calls made
   dispatched |-> FALSE,    \* removeMod dispatched
   cbCalls |-> 0,           \* invocations of the caller's callback
   cbErr |-> "none",        \* what the callback was last invoked with
   notified |-> "none"]     \* error notification shown

\* failures injected into one remove-mod operation so far: a rejected step of the
\* undeploy chain, a failing cancel, a failed deployment pass, failed deletions
FaultsOf(rec) ==
  (IF rec.stepErr # "none" THEN 1 ELSE 0)
  + (IF rec.cancelRes \in {"throws", "rejects"} THEN 1 ELSE 0)
  + (IF rec.deployErr \notin {"none", "null"} THEN 1 ELSE 0)
  + (IF rec.deleteRes = "ok" THEN rec.deletes - 1 ELSE rec.deletes)

RECURSIVE FaultsUpTo(_)
FaultsUpTo(n) == IF n = 0 THEN 0 ELSE FaultsOf(rm[n]) + FaultsUpTo(n - 1)

RmFaults == FaultsUpTo(MaxRemove)

\* ['downloaded', 'installed'].indexOf(modState) === -1
RemovableAlsoInstalling(modState) == modState \in {"downloaded", "installed", "installing"}
Removable(modState) == modState \in {"downloaded", "installed"}

\* store.dispatch(setModEnabled(profileId, modId, false)) on the profile settings
SetModEnabledKept(profile, m, value) == profile
SetModEnabled(profile, m, value) == [profile EXCEPT ![m] = value]

\* the synchronous part of undeploy(): "resolved", "rejected" (ProcessCanceled) or
\* "normalize" when the promise chain starts with getNormalizeFunc
UndeployStart(config) ==
  CASE config = "undiscovered" -> "resolved"
    [] config = "noActivator"  -> "rejected"
    [] config = "noDeployPath" -> "resolved"
    [] OTHER                   -> "normalize"

\* undeployMod(): no undeploy for a mod without installationPath
UndeployModStart(path, config) ==
  IF path = "undefined" THEN "resolved" ELSE UndeployStart(config)

\* positions of the undeploy chain: a cycle is in progress
CyclePcs == {"normalize", "load", "prepare", "deactivate", "finalize", "save"}

\* positions of the undeploy chain that lie before .tapCatch
BeforeTapCatch == {"normalize", "load", "prepare", "deactivate"}

\* the deployment method call issued at each position
MethodAt(pc) ==
  CASE pc = "prepare"    -> << "prepare" >>
    [] pc = "deactivate" -> << "deactivate" >>
    [] pc = "finalize"   -> << "finalize" >>
    [] OTHER             -> << >>

\* .tapCatch(() => { if (activator.cancel !== undefined) activator.cancel(...) })
TapCatch(pc, config) ==
  IF pc \in BeforeTapCatch /\ config # "noCancel" THEN << "cancel" >> ELSE << >>

\* how a call of activator.cancel can end: it returns (a promise that resolves), it
\* throws, or it returns a promise that rejects
CancelOutcomes == {"ok", "throws", "rejects"}

\* what the promise returned by .tapCatch rejects with: the handler's own exception when
\* it throws, else the rejection it was called for. The handler returns nothing, so a
\* promise returned by cancel is not waited for.
TapCatchRejection(err, tapped, cancelOutcome) ==
  IF tapped /\ cancelOutcome = "throws" THEN "CancelError" ELSE err

\* the promise returned by cancel rejects and nothing is chained to it
TapCatchUnhandled(tapped, cancelOutcome) == tapped /\ cancelOutcome = "rejects"

\* the chain of undeploy(): the position that follows pc when its step succeeded
NextStep(pc) ==
  CASE pc = "normalize"  -> "load"
    [] pc = "load"       -> "prepare"
    [] pc = "prepare"    -> "deactivate"
    [] pc = "deactivate" -> "finalize"
    [] pc = "finalize"   -> "save"
    [] OTHER             -> "undeployed"

\* loadActivation: the manifest last saved for the mod type
LoadActivation(persisted) == persisted
\* activator.prepare(deployPath, false, lastActivation, normalize)
Prepare(lastActivation) == lastActivation
\* activator.deactivate(stagedModPath, subdir(mod)): the mod's entries are dropped
Deactivate(context, m) == context \ {m}
\* activator.finalize(): the new manifest
Finalize(context) == context

\* the handlers .catch(TemporaryError) .. .catch(err) of onRemoveMod: the notification
\* shown when no callback was supplied
NotificationFor(err) ==
  CASE err = "TemporaryError"  -> "Failed to undeploy mod, please try again"
    [] err = "ProcessCanceled" -> "Failed to remove mod"
    [] err = "UserCanceled"    -> "none"
    [] OTHER                   -> "Failed to remove mod"

\* the chain settled with err: callback(err) or a notification, then stopActivity
Settle(r, rec, err) ==
  [rec EXCEPT !.pc = "done",
              !.lastActivation = {}, !.context = {}, !.newActivation = {},
              !.cbCalls = IF rec.hasCb THEN @ + 1 ELSE @,
              !.cbErr = IF rec.hasCb THEN err ELSE @,
              !.notified = IF rec.hasCb \/ err = "null" THEN @ ELSE NotificationFor(err)]

OrchInit ==
  /\ mods = [m \in ModIds |-> CASE m = "m1" -> "installed"
                                [] m = "m2" -> "downloaded"
                                [] OTHER    -> "installing"]
  /\ installationPath \in {f \in [ModIds -> {"modA", "modB", "modC", "undefined"}] :
                             /\ f["m1"] = "modA"
                             /\ f["m2"] \in {"modB", "undefined"}
                             /\ f["m3"] = "modC"}
  /\ enabled = [m \in ModIds |-> TRUE]
  /\ staged = [m \in ModIds |-> installationPath[m] # "undefined"]
  /\ manifest = {m \in ModIds : mods[m] = "installed"
                                \/ (mods[m] = "downloaded" /\ installationPath[m] # "undefined")}
  /\ setup \in Setups
  /\ rm = [r \in Removes |-> IdleRm]
  /\ nextRm = 1
  /\ activity = {}

\* api.events 'remove-mod': onRemoveMod up to its first asynchronous call
OnRemoveMod(m, cb) ==
  LET r     == nextRm
      rec   == [IdleRm EXCEPT !.mod = m, !.hasCb = cb, !.arrival = mods[m]]
      start == UndeployModStart(installationPath[m], setup)
  IN
  /\ nextRm <= MaxRemove
  /\ nextRm' = nextRm + 1
  /\ IF ~Removable(mods[m])
       THEN \* callback(new ProcessCanceled(...)); return
            /\ rm' = [rm EXCEPT ![r] = [rec EXCEPT !.pc = "done",
                                          !.cbCalls = IF cb THEN 1 ELSE 0,
                                          !.cbErr = IF cb THEN "ProcessCanceled" ELSE "none"]]
            /\ UNCHANGED <<enabled, activity>>
       ELSE \* setModEnabled(profileId, modId, false); startActivity; undeployMod()
            /\ enabled' = SetModEnabled(enabled, m, FALSE)
            /\ activity' = activity \cup {r}
            /\ rm' = [rm EXCEPT ![r] =
                        CASE start = "normalize" ->
                               [rec EXCEPT !.pc = "normalize", !.cycle = TRUE,
                                           !.atStart = manifest]
                          [] start = "rejected" ->
                               [rec EXCEPT !.pc = "rejected", !.undeployErr = "ProcessCanceled"]
                          [] OTHER ->
                               [rec EXCEPT !.pc = "undeployed", !.undeployErr = "null"]]
  /\ UNCHANGED <<mods, installationPath, staged, manifest, setup>>
  /\ UNCHANGED <<workerVars, actVars, faVars>>

\* one step of the undeploy() chain of request r settles: getNormalizeFunc,
\* loadActivation, prepare, deactivate, finalize or saveActivation; res is "ok" or the
\* error it rejects with. A rejection runs .tapCatch when the step lies before it and
\* then reaches .catch({ code: 'ENOTFOUND' }) of undeployMod; cancelOutcome is how
\* activator.cancel ends when .tapCatch calls it.
UndeployStep(r, res, cancelOutcome) ==
  LET rec    == rm[r]
      pc     == rec.pc
      tapped == res # "ok" /\ TapCatch(pc, setup) # << >>
      err    == TapCatchRejection(res, tapped, cancelOutcome)
      called == [rec EXCEPT !.calls = @ \o MethodAt(pc)]
      ok     == [called EXCEPT
                   !.pc = NextStep(pc),
                   !.stage = pc,
                   !.lastActivation = IF pc = "load" THEN LoadActivation(manifest) ELSE @,
                   !.context = CASE pc = "prepare"    -> Prepare(rec.lastActivation)
                                 [] pc = "deactivate" -> Deactivate(rec.context, rec.mod)
                                 [] OTHER             -> @,
                   !.newActivation = IF pc = "finalize" THEN Finalize(rec.context) ELSE @,
                   !.saves = IF pc = "save" THEN @ + 1 ELSE @,
                   !.undeployErr = IF NextStep(pc) = "undeployed" THEN "null" ELSE @]
      failed == [called EXCEPT
                   !.pc = IF err = "ENOTFOUND" THEN "dialog" ELSE "rejected",
                   !.calls = @ \o TapCatch(pc, setup),
                   !.saves = IF pc = "save" THEN @ + 1 ELSE @,
                   !.atFail = manifest,
                   !.stepErr = res,
                   !.cancelRes = IF tapped THEN cancelOutcome ELSE "none",
                   !.unhandled = TapCatchUnhandled(tapped, cancelOutcome),
                   !.undeployErr = err]
  IN
  /\ pc \in CyclePcs
  /\ cancelOutcome # "ok" => tapped
  /\ res # "ok" => RmFaults + (IF cancelOutcome = "ok" THEN 1 ELSE 2) <= MaxRmFaults
  /\ rm' = [rm EXCEPT ![r] = IF res = "ok" THEN ok ELSE failed]
  /\ manifest' = IF pc = "save" /\ res = "ok" THEN rec.newActivation ELSE manifest
  /\ UNCHANGED <<mods, installationPath, enabled, staged, setup, nextRm, activity>>
  /\ UNCHANGED <<workerVars, actVars, faVars>>

\* the 'Mod not found' dialog is answered: Ignore resolves, Deploy emits 'deploy-mods'
ModNotFoundDialog(r, action) ==
  /\ rm[r].pc = "dialog"
  /\ rm' = [rm EXCEPT ![r].pc = IF action = "Deploy" THEN "deploying" ELSE "undeployed",
                      ![r].recovery = action]
  /\ UNCHANGED <<mods, installationPath, enabled, staged, manifest, setup, nextRm,
                 activity>>
  /\ UNCHANGED <<workerVars, actVars, faVars>>

\* the 'deploy-mods' callback is invoked with deployErr
DeployModsDone(r, deployErr) ==
  /\ rm[r].pc = "deploying"
  /\ deployErr # "null" => RmFaults < MaxRmFaults
  /\ rm' = [rm EXCEPT ![r].pc = IF deployErr = "null" THEN "undeployed" ELSE "rejected",
                      ![r].deployErr = deployErr]
  /\ UNCHANGED <<mods, installationPath, enabled, staged, manifest, setup, nextRm,
                 activity>>
  /\ UNCHANGED <<workerVars, actVars, faVars>>

\* store.dispatch(removeMod(gameMode, mod.id)); callback(null); finally stopActivity
RemoveModAndSettle(r, rec) ==
  /\ mods' = [mods EXCEPT ![rec.mod] = "absent"]
  /\ rm' = [rm EXCEPT ![r] = Settle(r, [rec EXCEPT !.dispatched = TRUE], "null")]
  /\ activity' = activity \ {r}

\* a rejection reaches the catch handlers of onRemoveMod; finally stopActivity
CatchAndSettle(r, rec, err) ==
  /\ rm' = [rm EXCEPT ![r] = Settle(r, rec, err)]
  /\ activity' = activity \ {r}
  /\ UNCHANGED mods

\* undeployMod() resolved: .then(() => fs.removeAsync(fullModPath) ...) when the mod has
\* an installation path, else straight on to removeMod
AfterUndeploy(r) ==
  /\ rm[r].pc = "undeployed"
  /\ IF installationPath[rm[r].mod] # "undefined"
       THEN /\ rm' = [rm EXCEPT ![r].pc = "remove"]
            /\ UNCHANGED <<mods, activity>>
       ELSE RemoveModAndSettle(r, rm[r])
  /\ UNCHANGED <<installationPath, enabled, staged, manifest, setup, nextRm>>
  /\ UNCHANGED <<workerVars, actVars, faVars>>

\* undeployMod() rejected for good
AfterRejection(r) ==
  /\ rm[r].pc = "rejected"
  /\ CatchAndSettle(r, rm[r], IF rm[r].deployErr \notin {"none", "null"}
                                THEN rm[r].deployErr ELSE rm[r].undeployErr)
  /\ UNCHANGED <<installationPath, enabled, staged, manifest, setup, nextRm>>
  /\ UNCHANGED <<workerVars, actVars, faVars>>

\* what follows a settled fs.removeAsync: "retry" (.catch({ code: 'ENOTEMPTY' }) on the
\* first attempt), "resolved" (success, or ENOENT) or "rejected"
AfterRemoveEveryNotEmpty(attempt, res) ==
  IF res = "ENOTEMPTY" THEN "retry"
  ELSE IF res \in {"ok", "ENOENT"} THEN "resolved"
  ELSE "rejected"
AfterRemoveLenient(attempt, res) ==
  IF res = "ENOTEMPTY" /\ attempt = 1 THEN "retry" ELSE "resolved"
AfterRemove(attempt, res) ==
  IF res = "ENOTEMPTY" /\ attempt = 1 THEN "retry"
  ELSE IF res \in {"ok", "ENOENT"} THEN "resolved"
  ELSE "rejected"

\* fs.removeAsync(fullModPath) settles with res
RemoveAsyncDone(r, res) ==
  LET rec  == [rm[r] EXCEPT !.deletes = @ + 1, !.deleteRes = res,
                            !.firstDelete = IF rm[r].deletes = 0 THEN res ELSE @]
      then == AfterRemove(rec.deletes, res)
  IN
  /\ rm[r].pc = "remove"
  /\ res # "ok" => RmFaults < MaxRmFaults
  /\ staged' = IF res = "ok" THEN [staged EXCEPT ![rec.mod] = FALSE] ELSE staged
  /\ CASE then = "retry"    -> /\ rm' = [rm EXCEPT ![r] = rec]
                               /\ UNCHANGED <<mods, activity>>
       [] then = "resolved" -> RemoveModAndSettle(r, rec)
       [] OTHER             -> CatchAndSettle(r, rec, res)
  /\ UNCHANGED <<installationPath, enabled, manifest, setup, nextRm>>
  /\ UNCHANGED <<workerVars, actVars, faVars>>

NextRemove ==
  \/ \E m \in ModIds, cb \in BOOLEAN : OnRemoveMod(m, cb)
  \/ \E r \in Removes, res \in {"ok"} \cup StepErrors, cancelOutcome \in CancelOutcomes :
       UndeployStep(r, res, cancelOutcome)
  \/ \E r \in Removes, action \in {"Ignore", "Deploy"} : ModNotFoundDialog(r, action)
  \/ \E r \in Removes, deployErr \in {"null", "EIO"} : DeployModsDone(r, deployErr)
  \/ \E r \in Removes : AfterUndeploy(r)
  \/ \E r \in Removes : AfterRejection(r)
  \/ \E r \in Removes, res \in {"ok"} \cup RemoveErrors : RemoveAsyncDone(r, res)

(***************************************************************************)
(* The orchestrator: onGameModeActivated, onPathsChanged, onAddMod.        *)
(***************************************************************************)
\* the configured staging folder and the folder a 'Browse...' can select
StagingDirs == {"dirA", "dirB"}

\* the tag file STAGING_DIR_TAG of an existing directory: written by this instance,
\* written by another instance, not JSON, or no file
Tags == {"own", "foreign", "corrupt", "none"}

\* Object.keys(modPaths)
TypeIds == << "typeA", "typeB" >>

\* the ids getSupportedActivators can return, in its order
SupportedLists == { << >>, << "symlink", "hardlink" >> }

\* api.showErrorNotification(title, err, { allowReport }) / showError for an error
\* with that code
ErrNote(title, code, allowReport) ==
  [title |-> title, code |-> code, allowReport |-> allowReport]
\* a notification that does not show a filesystem error
Note(title, allowReport) == ErrNote(title, "none", allowReport)

IdleGa ==
  [pc |-> "idle",
   instPath |-> "dirA",     \* let instPath = installPath(state)
   depth |-> 0,             \* calls of ensureStagingDirectory waiting on a nested one
   selected |-> "none",     \* selectedPath of the running 'Browse...'
   browses |-> 0,
   change |-> FALSE,        \* changeActivator, and the branch that declares it was taken
   migrate |-> FALSE,       \* changeActivator && oldActivator !== undefined
   typeIdx |-> 0,           \* position of mapSeries in Object.keys(modPaths)
   rejection |-> "none",    \* rejection passing through .finally(postPurge)
   knownMods |-> [m \in ModIds |-> "absent"],
   \* history of the activation, read by the properties only
   vPrompts |-> 0,          \* dialogs shown by the running validateStagingTag
   vDeclined |-> FALSE,     \* 'Cancel' was answered to its foreign-instance dialog
   validations |-> {},      \* finished calls of validateStagingTag
   confirmed |-> {},        \* directories the user confirmed or asked to create
   adopted |-> {},          \* directories whose tag was written, or reconciled against
   calls |-> << >>,         \* calls of the old deployment method, in order
   exited |-> FALSE,        \* app.exit(0)
   stagingFailed |-> "none", \* the step in which ensureStagingDirectory rejected
   setActivator |-> "none", \* id dispatched with setActivator after the migration
   refreshed |-> FALSE,     \* refreshMods was called
   removed |-> {},          \* catalog entries removed by the reconciliation
   ended |-> "none"]        \* "ok", or the rejection the final handlers received

IdlePr ==
  [pc |-> "idle", instPath |-> "dirA",
   knownMods |-> [m \in ModIds |-> "absent"],
   removed |-> {}]

\* the mod's staged files are in directory dir
OnDisk(m, dir) == staged[m] /\ home[m] = dir /\ dirs[dir] # "nodir"

\* let changeActivator = true; ... if (reason === undefined) changeActivator = false
ChangeActivator(configured, registered, applicable) ==
  ~(configured # "undefined" /\ registered /\ applicable)

\* the notification shown while the replacement is decided (activatorToUse undefined)
MigrationNotice(configured, registered, applicable) ==
  IF configured = "undefined" THEN {}
  ELSE IF ~registered
    THEN {Note("Deployment method no longer available", FALSE)}
  ELSE IF applicable THEN {}
  ELSE {Note("Deployment method no longer supported", FALSE)}

\* api.store.dispatch(setActivator(gameId, supported[0].id))
ReplacementLast(supported) == supported[Len(supported)]
Replacement(supported) == supported[1]

\* tag.instance !== state.app.instanceId
ForeignInstanceOrOwn(tag) == tag \in {"foreign", "own"}
ForeignInstance(tag) == tag = "foreign"

\* validateStagingTag after the tag file was read: "accept", or the dialog to show
\* (readFileAsync or JSON.parse failed: the .catch at the end of the chain)
AfterReadTag(tag) ==
  IF tag \in {"none", "corrupt"} THEN "notMarkedDialog"
  ELSE IF ForeignInstance(tag) THEN "foreignDialog"
  ELSE "accept"

\* the answer to the foreign-instance dialog: 'Cancel' rejects with UserCanceled inside
\* the chain, and the .catch(() => ...) that ends the chain receives that rejection too
AfterForeignDialog(action) ==
  IF action = "Cancel" THEN "notMarkedDialog" ELSE "accept"

\* the answer to the 'not marked as a staging folder' dialog
AfterNotMarkedDialog(action) ==
  IF action = "Cancel" THEN "UserCanceled" ELSE "accept"

\* the notification of .catch(err => api.showErrorNotification('Purge failed', ...)) and
\* of the two handlers before it
PurgeNotice(err) ==
  CASE err = "ProcessCanceled" -> {}
    [] err = "TemporaryError"  -> {Note("Purge failed, please try again", FALSE)}
    [] OTHER -> {ErrNote("Purge failed", err, err \in {"ENOENT", "ENOTFOUND"})}

\* the handlers that end the chain of onGameModeActivated
RefreshNotice(err) ==
  CASE err = "UserCanceled"    -> {}
    [] err = "ProcessCanceled" -> {}
    [] OTHER -> {ErrNote("Failed to refresh mods", err, err # "ENOENT")}

\* the callbacks given to refreshMods: the known mods it reports missing are removed
\* when the state they had in knownMods is downloaded or installed
ReconcileRemoves(known, dir) ==
  {m \in ModIds : /\ known[m] # "absent"
                  /\ ~OnDisk(m, dir)
                  /\ known[m] \in {"downloaded", "installed"}}

\* refreshMods reports the directories that belong to no known mod; addMod creates
\* the entry
ReconcileAdds(known, dir) ==
  {m \in ModIds : known[m] = "absent" /\ OnDisk(m, dir) /\ mods[m] = "absent"}

Reconcile(known, dir) ==
  [m \in ModIds |-> IF m \in ReconcileRemoves(known, dir) THEN "absent"
                    ELSE IF m \in ReconcileAdds(known, dir) THEN "installed"
                    ELSE mods[m]]

\* what the reconciliation removed: the state each entry had when it was removed
RemovedEntries(known, dir) ==
  {[mod |-> m, state |-> mods[m], onDisk |-> OnDisk(m, dir)] :
     m \in ReconcileRemoves(known, dir)}

ActInit ==
  /\ dirs \in {f \in [StagingDirs -> Tags \cup {"nodir"}] : f["dirB"] # "nodir"}
  /\ home = [m \in ModIds |-> "dirA"]
  /\ instPath = "dirA"
  /\ activator \in {"undefined", "old"}
  /\ methods \in {c \in [registered : BOOLEAN, applicable : BOOLEAN,
                        supported : SupportedLists,
                        toUse : {"undefined", "symlink"}] :
                    /\ activator = "undefined" => ~c.registered /\ ~c.applicable
                    /\ c.applicable => c.registered
                    /\ c.toUse # "undefined" => c.supported # << >>}
  /\ notes = {}
  /\ ga = IdleGa
  /\ pr = IdlePr
  /\ am = {}

\* the part of the state a step of the activation chain can change besides the disk
Ctx == [g |-> ga, act |-> activator, notes |-> notes]

\* the handlers that end the chain: .catch(UserCanceled) .. .catch(err => showError)
Finish(c, err) ==
  [c EXCEPT !.g.pc = "done", !.g.ended = err,
            !.notes = @ \cup RefreshNotice(err)]

\* the chain after the clean-up of the old method: setActivator when the method is
\* changed, then refreshMods; a rejection skips both
AfterMigration(c, rejection) ==
  LET switch == c.g.change /\ rejection = "none" /\ methods.supported # << >>
      c1     == IF switch
                  THEN [c EXCEPT !.act = Replacement(methods.supported),
                                 !.g.setActivator = Replacement(methods.supported)]
                  ELSE c
  IN IF rejection = "none"
       THEN [c1 EXCEPT !.g.pc = "refresh", !.g.refreshed = TRUE]
       ELSE Finish(c1, rejection)

\* the chain behind .catch(ProcessCanceled, () => Promise.resolve()): on to
\* .finally(() => oldActivator.postPurge())
BeforePostPurge(c, rejection) ==
  [c EXCEPT !.g.pc = "postPurge",
            !.g.rejection = IF rejection = "ProcessCanceled" THEN "none" ELSE rejection]

\* ensureStagingDirectory() resolved
EnsureResolved(c) ==
  IF c.g.migrate THEN [c EXCEPT !.g.pc = "prePurge"] ELSE AfterMigration(c, "none")

\* ensureStagingDirectory() rejected: every .then up to the next handler is skipped
EnsureRejected(c, err) ==
  IF c.g.migrate THEN BeforePostPurge(c, err) ELSE AfterMigration(c, err)

\* 'Browse...' failed: .catch(() => ensureStagingDirectory())
BrowseAgain(c) ==
  [c EXCEPT !.g.pc = "stat", !.g.depth = @ + 1, !.g.selected = "none"]

\* validateStagingTag settled for the selected directory
Validated(c, result) ==
  [c EXCEPT !.g.validations = @ \cup {[dir |-> c.g.selected,
                                       tag |-> dirs[c.g.selected],
                                       prompts |-> c.g.vPrompts,
                                       declined |-> c.g.vDeclined,
                                       result |-> result]},
            !.g.vPrompts = 0, !.g.vDeclined = FALSE]

\* validateStagingTag resolved: instPath = selectedPath; setInstallPath; then the tag
ValidateAccepted(c) ==
  [Validated(c, "accepted") EXCEPT !.g.pc = "writeTag", !.g.instPath = c.g.selected,
                                   !.g.selected = "none"]

ValidateRejected(c) == BrowseAgain(Validated(c, "UserCanceled"))

\* a dialog of validateStagingTag is shown
ShowValidateDialog(c, dialog) ==
  [c EXCEPT !.g.pc = dialog, !.g.vPrompts = @ + 1]

\* a dialog of validateStagingTag was answered, or none was needed
ValidateContinue(c, then) ==
  CASE then = "accept"       -> ValidateAccepted(c)
    [] then = "UserCanceled" -> ValidateRejected(c)
    [] OTHER                 -> ShowValidateDialog(c, then)

ApplyCtx(c) ==
  /\ ga' = c.g
  /\ activator' = c.act
  /\ notes' = c.notes

\* api.events 'gamemode-activated': onGameModeActivated up to initProm()
OnGameModeActivated ==
  LET toUse  == methods.toUse
      change == toUse = "undefined"
                /\ ChangeActivator(activator, methods.registered, methods.applicable)
  IN
  /\ ga.pc = "idle"
  /\ IF setup = "undiscovered"
       THEN /\ ga' = [ga EXCEPT !.pc = "done"]
            /\ UNCHANGED <<activator, notes>>
       ELSE /\ ga' = [ga EXCEPT !.pc = "stat",
                                !.instPath = instPath,
                                !.change = change,
                                !.migrate = change /\ activator # "undefined"
                                            /\ methods.registered,
                                !.knownMods = mods]
            /\ activator' = IF toUse # "undefined" /\ activator = "undefined"
                              THEN toUse ELSE activator
            /\ notes' = IF toUse = "undefined"
                          THEN notes \cup MigrationNotice(activator, methods.registered,
                                                          methods.applicable)
                          ELSE notes
  /\ UNCHANGED <<dirs, home, instPath, methods, pr, am>>
  /\ UNCHANGED <<orchVars, workerVars, faVars>>

\* fs.statAsync(instPath) settles
StatDone ==
  /\ ga.pc = "stat"
  /\ ga' = [ga EXCEPT !.pc = IF dirs[ga.instPath] # "nodir" THEN "writeTag"
                             ELSE "missingDialog"]
  /\ UNCHANGED <<dirs, home, instPath, activator, methods, notes, pr, am>>
  /\ UNCHANGED <<orchVars, workerVars, faVars>>

\* the 'Mod Staging Folder missing!' dialog is answered
MissingDialog(action) ==
  /\ ga.pc = "missingDialog"
  /\ action = "Browse..." => ga.browses < MaxBrowse
  /\ ApplyCtx(CASE action = "Quit Vortex" ->
                     EnsureRejected([Ctx EXCEPT !.g.exited = TRUE,
                                                !.g.stagingFailed = "Quit Vortex"],
                                    "UserCanceled")
                [] action = "Reinitialize" ->
                     [Ctx EXCEPT !.g.pc = "fallbackPurge",
                                 !.g.confirmed = @ \cup {ga.instPath}]
                [] OTHER ->
                     [Ctx EXCEPT !.g.pc = "selectDir", !.g.browses = @ + 1])
  /\ UNCHANGED <<dirs, home, instPath, methods, pr, am>>
  /\ UNCHANGED <<orchVars, workerVars, faVars>>

\* fallbackPurge(api), then fs.ensureDirWritableAsync(instPath), settle; a failure of
\* either rejects with ProcessCanceled('not purged')
ReinitializeStep(res) ==
  /\ ga.pc \in {"fallbackPurge", "ensureDirWritable"}
  /\ IF res = "ok"
       THEN IF ga.pc = "fallbackPurge"
              THEN /\ ga' = [ga EXCEPT !.pc = "ensureDirWritable"]
                   /\ UNCHANGED <<dirs, activator, notes>>
              ELSE /\ dirs' = [dirs EXCEPT ![ga.instPath] = "none"]
                   /\ ga' = [ga EXCEPT !.pc = "writeTag"]
                   /\ UNCHANGED <<activator, notes>>
       ELSE /\ ApplyCtx(EnsureRejected([Ctx EXCEPT !.g.stagingFailed = ga.pc],
                                       "ProcessCanceled"))
            /\ UNCHANGED dirs
  /\ UNCHANGED <<home, instPath, methods, pr, am>>
  /\ UNCHANGED <<orchVars, workerVars, faVars>>

\* api.selectDir settles: nothing selected, or a directory
SelectDirDone(selectedPath) ==
  /\ ga.pc = "selectDir"
  /\ ApplyCtx(IF selectedPath = "none"
                THEN BrowseAgain(Ctx)
                ELSE [Ctx EXCEPT !.g.pc = "readTag", !.g.selected = selectedPath])
  /\ UNCHANGED <<dirs, home, instPath, methods, pr, am>>
  /\ UNCHANGED <<orchVars, workerVars, faVars>>

\* a step of validateStagingTag settles: the tag file was read, or a dialog answered
ValidateStep(action) ==
  LET then == CASE ga.pc = "readTag"       -> AfterReadTag(dirs[ga.selected])
                [] ga.pc = "foreignDialog" -> AfterForeignDialog(action)
                [] OTHER                   -> AfterNotMarkedDialog(action)
      c0   == IF ga.pc = "readTag" THEN Ctx
              ELSE [Ctx EXCEPT
                      !.g.vDeclined = @ \/ (ga.pc = "foreignDialog" /\ action = "Cancel"),
                      !.g.confirmed = IF action = "Cancel" THEN @
                                      ELSE @ \cup {ga.selected}]
      c1   == ValidateContinue(c0, then)
  IN
  /\ ga.pc \in {"readTag", "foreignDialog", "notMarkedDialog"}
  /\ ga.pc = "readTag" => action = "none"
  /\ ga.pc # "readTag" => action # "none"
  /\ ApplyCtx(c1)
  /\ instPath' = IF then = "accept" THEN ga.selected ELSE instPath
  /\ UNCHANGED <<dirs, home, methods, pr, am>>
  /\ UNCHANGED <<orchVars, workerVars, faVars>>

\* writeStagingTag(api, path.join(instPath, STAGING_DIR_TAG), gameId) settles
WriteTagDone(res) ==
  LET c0 == [Ctx EXCEPT !.g.adopted = @ \cup {[dir |-> ga.instPath,
                                               tag |-> dirs[ga.instPath],
                                               confirmed |-> ga.instPath \in ga.confirmed]}]
  IN
  /\ ga.pc = "writeTag"
  /\ IF res = "ok"
       THEN /\ dirs' = [dirs EXCEPT ![ga.instPath] = "own"]
            /\ ApplyCtx(IF ga.depth > 0 THEN [c0 EXCEPT !.g.depth = @ - 1]
                        ELSE EnsureResolved(c0))
       ELSE /\ UNCHANGED dirs
            /\ ApplyCtx(EnsureRejected([Ctx EXCEPT !.g.stagingFailed = "writeTag"], res))
  /\ UNCHANGED <<home, instPath, methods, pr, am>>
  /\ UNCHANGED <<orchVars, workerVars, faVars>>

\* oldActivator.prePurge(instPath) settles
PrePurgeDone(res) ==
  LET c0 == [Ctx EXCEPT !.g.calls = Append(@, "prePurge")]
  IN
  /\ ga.pc = "prePurge"
  /\ ApplyCtx(IF res = "ok" THEN [c0 EXCEPT !.g.pc = "purge", !.g.typeIdx = 1]
              ELSE BeforePostPurge(c0, res))
  /\ UNCHANGED <<dirs, home, instPath, methods, pr, am>>
  /\ UNCHANGED <<orchVars, workerVars, faVars>>

\* oldActivator.purge(instPath, modPaths[typeId]) settles for the next mod type of
\* Promise.mapSeries; a rejection ends the series and is handled on the spot
PurgeDone(res) ==
  LET c0 == [Ctx EXCEPT !.g.calls = Append(@, "purge")]
  IN
  /\ ga.pc = "purge"
  /\ ApplyCtx(IF res = "ok"
                THEN IF ga.typeIdx < Len(TypeIds)
                       THEN [c0 EXCEPT !.g.typeIdx = @ + 1]
                       ELSE BeforePostPurge(c0, "none")
                ELSE BeforePostPurge([c0 EXCEPT !.notes = @ \cup PurgeNotice(res)],
                                     "none"))
  /\ UNCHANGED <<dirs, home, instPath, methods, pr, am>>
  /\ UNCHANGED <<orchVars, workerVars, faVars>>

\* .finally(() => oldActivator.postPurge()) settles: the chain keeps the rejection it
\* had unless postPurge rejects itself
PostPurgeDone(res) ==
  LET c0 == [Ctx EXCEPT !.g.calls = Append(@, "postPurge"), !.g.rejection = "none"]
  IN
  /\ ga.pc = "postPurge"
  /\ ApplyCtx(AfterMigration(c0, IF res = "ok" THEN ga.rejection ELSE res))
  /\ UNCHANGED <<dirs, home, instPath, methods, pr, am>>
  /\ UNCHANGED <<orchVars, workerVars, faVars>>

\* refreshMods(api, instPath, Object.keys(knownMods), ...) settles; it cannot list a
\* directory that does not exist
RefreshModsDone(res) ==
  LET c0 == [Ctx EXCEPT !.g.removed = RemovedEntries(ga.knownMods, ga.instPath),
                        !.g.adopted = @ \cup {[dir |-> ga.instPath,
                                               tag |-> dirs[ga.instPath],
                                               confirmed |-> ga.instPath \in ga.confirmed]}]
  IN
  /\ ga.pc = "refresh"
  /\ dirs[ga.instPath] = "nodir" => res # "ok"
  /\ IF res = "ok"
       THEN /\ mods' = Reconcile(ga.knownMods, ga.instPath)
            /\ ApplyCtx([c0 EXCEPT !.g.pc = "done", !.g.ended = "ok"])
       ELSE /\ UNCHANGED mods
            /\ ApplyCtx(Finish(Ctx, res))
  /\ UNCHANGED <<dirs, home, instPath, methods, pr, am>>
  /\ UNCHANGED <<installationPath, enabled, staged, manifest, setup, rm, nextRm, activity>>
  /\ UNCHANGED <<workerVars, faVars>>

\* onPathsChanged: the staging folder of the active game changed, or it did not
OnPathsChanged(changed) ==
  /\ pr.pc = "idle"
  /\ pr' = IF changed
             THEN [pr EXCEPT !.pc = "refresh", !.instPath = instPath, !.knownMods = mods]
             ELSE [pr EXCEPT !.pc = "done"]
  /\ UNCHANGED <<dirs, home, instPath, activator, methods, notes, ga, am>>
  /\ UNCHANGED <<orchVars, workerVars, faVars>>

\* refreshMods of onPathsChanged settles
PathsRefreshDone(res) ==
  /\ pr.pc = "refresh"
  /\ dirs[pr.instPath] = "nodir" => res # "ok"
  /\ IF res = "ok"
       THEN /\ mods' = Reconcile(pr.knownMods, pr.instPath)
            /\ pr' = [pr EXCEPT !.pc = "done",
                                !.removed = RemovedEntries(pr.knownMods, pr.instPath)]
            /\ UNCHANGED notes
       ELSE /\ pr' = [pr EXCEPT !.pc = "done"]
            /\ notes' = notes \cup {ErrNote("Failed to refresh mods", res, TRUE)}
            /\ UNCHANGED mods
  /\ UNCHANGED <<dirs, home, instPath, activator, methods, ga, am>>
  /\ UNCHANGED <<installationPath, enabled, staged, manifest, setup, rm, nextRm, activity>>
  /\ UNCHANGED <<workerVars, faVars>>

\* api.events 'add-mod' for a mod that starts to install: addMod is dispatched, then
\* the mod's directory is created
OnAddMod(m) ==
  /\ mods[m] = "absent"
  /\ m \notin am
  /\ installationPath[m] # "undefined"
  /\ mods' = [mods EXCEPT ![m] = "installing"]
  /\ home' = [home EXCEPT ![m] = instPath]
  /\ am' = am \cup {m}
  /\ UNCHANGED <<dirs, instPath, activator, methods, notes, ga, pr>>
  /\ UNCHANGED <<installationPath, enabled, staged, manifest, setup, rm, nextRm, activity>>
  /\ UNCHANGED <<workerVars, faVars>>

\* fs.ensureDirAsync(path.join(installationPath, mod.installationPath)) settles and
\* the callback is invoked
AddModDirDone(m, res) ==
  /\ m \in am
  /\ am' = am \ {m}
  /\ staged' = IF res = "ok" /\ dirs[home[m]] # "nodir"
                 THEN [staged EXCEPT ![m] = TRUE] ELSE staged
  /\ UNCHANGED <<dirs, home, instPath, activator, methods, notes, ga, pr>>
  /\ UNCHANGED <<mods, installationPath, enabled, manifest, setup, rm, nextRm, activity>>
  /\ UNCHANGED <<workerVars, faVars>>

NextActivate ==
  \/ OnGameModeActivated
  \/ StatDone
  \/ \E action \in {"Quit Vortex", "Reinitialize", "Browse..."} : MissingDialog(action)
  \/ \E res \in {"ok", "ProcessCanceled", "EPERM"} : ReinitializeStep(res)
  \/ \E selectedPath \in {"none", "dirB"} : SelectDirDone(selectedPath)
  \/ \E action \in {"none", "Cancel", "Continue"} : ValidateStep(action)
  \/ \E res \in {"ok", "EPERM"} : WriteTagDone(res)
  \/ \E res \in {"ok", "ProcessCanceled", "EIO"} : PrePurgeDone(res)
  \/ \E res \in {"ok", "ProcessCanceled", "TemporaryError", "ENOENT", "EIO"} : PurgeDone(res)
  \/ \E res \in {"ok", "EIO"} : PostPurgeDone(res)
  \/ \E res \in {"ok", "ENOENT", "EIO"} : RefreshModsDone(res)

\* the events that touch the mod catalog, for a game whose mods deploy nowhere: a
\* remove-mod then consists of the deletion and removeMod
NextReconcile ==
  \/ OnGameModeActivated
  \/ StatDone
  \/ WriteTagDone("ok")
  \/ \E res \in {"ok", "EIO"} : RefreshModsDone(res)
  \/ OnPathsChanged(TRUE)
  \/ PathsRefreshDone("ok")
  \/ \E m \in ModIds : OnAddMod(m)
  \/ \E m \in ModIds : AddModDirDone(m, "ok")
  \/ \E m \in ModIds : OnRemoveMod(m, TRUE)
  \/ \E r \in Removes : AfterUndeploy(r)
  \/ \E r \in Removes, res \in {"ok", "ENOENT"} : RemoveAsyncDone(r, res)

(***************************************************************************)
(* The download file assembler: FileAssembler.ts.                          *)
(***************************************************************************)
Ops == 1..MaxOps
\* data.length of every chunk, and the bytes a short write reports
DataLength == 2
ShortLength == 1
\* the sizes passed to setTotalSize
Sizes == {1}
\* rejections of the filesystem calls and of the promise passed to rename
FaErrors == {"ENOSPC", "EIO"}

IdleOp ==
  [kind |-> "none", pc |-> "none",
   pred |-> 0,            \* the promise the chain was attached to: an earlier
                          \* operation, or 0 for the initial Promise.resolve()
   link |-> "pending",    \* the promise stored in mWork: "pending", "resolved" or
                          \* the rejection
   result |-> "none",     \* the promise returned to the caller: "pending", "true" or
                          \* "false" (synced), "resolved", "retry", or the rejection
   size |-> 0,            \* argument of setTotalSize
   fd |-> "undefined",    \* const fd = this.mFD of close
   bytesWritten |-> 0,
   synced |-> FALSE,
   \* history of the operation, read by the properties only
   afterClose |-> FALSE,  \* the handler of a close had run when it was submitted
   afterFailed |-> FALSE, \* an addChunk or rename had failed when it was submitted
   ran |-> FALSE,         \* its first .then handler was called
   wrote |-> FALSE,       \* it called fsFast.write
   fsyncs |-> 0,          \* its calls of fs.fsyncAsync
   closes |-> 0,          \* its calls of fs.closeAsync
   faulted |-> FALSE,     \* one of its own calls was made to fail
   retry |-> 0]           \* the addChunk its 'Retry' submitted

\* isClosed(): this.mFD === undefined
IsClosed == mFD = "undefined"

\* the handler of some close() has run
CloseRan == \E j \in Ops : faOps[j].kind = "close" /\ faOps[j].ran

\* the promise returned by an addChunk was rejected
AddChunkFailed(o) ==
  o.kind = "addChunk" /\ o.result \notin {"none", "pending", "true", "false", "retry"}

\* some addChunk or rename has failed
SomeFailed ==
  \E j \in Ops : \/ faOps[j].kind = "rename" /\ faOps[j].link \notin {"pending", "resolved"}
                 \/ AddChunkFailed(faOps[j])

\* a method call starts its chain on this.mWork
NewOp(kind, size) ==
  [IdleOp EXCEPT !.kind = kind, !.pc = "wait", !.pred = mWork, !.size = size,
                 !.result = IF kind \in {"addChunk", "close"} THEN "pending" ELSE "none",
                 !.afterClose = CloseRan, !.afterFailed = SomeFailed]

\* this.mWork = this.mWork.then(...): the new chain becomes the work chain
ChainOnKept(work, n) == work
ChainOn(work, n) == n

\* how the promise the chain of operation i was attached to has settled
PredState(i) == IF faOps[i].pred = 0 THEN "resolved" ELSE faOps[faOps[i].pred].link

\* what a filesystem call on descriptor fd yields when nothing else fails
OnDescriptor(fd) ==
  IF fd = "undefined" THEN "TypeError" ELSE IF fdOpen THEN "ok" ELSE "EBADF"

\* the outcome of a call: its own failure first, else what the environment decides
FaResult(natural, out) == IF natural # "ok" THEN natural ELSE out

FaInit ==
  /\ faOps = [i \in Ops |-> IdleOp]
  /\ nextOp = 1
  /\ mWork = 0
  /\ mFD = "fd"
  /\ fdOpen = TRUE
  /\ mFileName = "fileName"
  /\ mTotalSize = 0
  /\ mWritten = 0
  /\ mLastFlushedTime = 0
  /\ faFaults = 0

\* setTotalSize, rename, addChunk, close up to the assignment of this.mWork
Submit(kind, size) ==
  /\ nextOp <= MaxOps
  /\ faOps' = [faOps EXCEPT ![nextOp] = NewOp(kind, size)]
  /\ mWork' = ChainOn(mWork, nextOp)
  /\ nextOp' = nextOp + 1
  /\ UNCHANGED <<mFD, fdOpen, mFileName, mTotalSize, mWritten, mLastFlushedTime, faFaults>>
  /\ UNCHANGED <<workerVars, orchVars, actVars>>

SetTotalSize(size) == Submit("setTotalSize", size)
Rename == Submit("rename", 0)
AddChunk == Submit("addChunk", 0)
Close == Submit("close", 0)

\* the chain of operation i settles as mWork: a rejection, or "resolved"
Settled(o, link) ==
  [o EXCEPT !.pc = "settled", !.link = link,
            !.result = IF o.kind = "close" THEN link ELSE @]

\* .catch({ code: 'ENOSPC' }, ...) and .catch(err => reject(err)) of addChunk: the
\* dialog answered 'Retry' submits the chunk again, 'Cancel' rejects with
\* UserCanceled; either handler returns nothing, so the work chain resolves
AddChunkCatch(o, i, err, answer) ==
  LET retry == err = "ENOSPC" /\ answer = "Retry"
      o1    == [o EXCEPT !.pc = "settled", !.link = "resolved",
                         !.result = IF @ # "pending" THEN @
                                    ELSE IF retry THEN "retry"
                                    ELSE IF err = "ENOSPC" THEN "UserCanceled"
                                    ELSE err,
                         !.retry = IF retry THEN nextOp ELSE @]
      ops1  == [faOps EXCEPT ![i] = o1]
  IN
  /\ (answer # "none") <=> (err = "ENOSPC")
  /\ retry => nextOp <= MaxOps
  /\ IF retry
       THEN /\ faOps' = [ops1 EXCEPT ![nextOp] =
                           [NewOp("addChunk", 0) EXCEPT
                              !.afterFailed = SomeFailed \/ \E j \in Ops : AddChunkFailed(ops1[j])]]
            /\ mWork' = ChainOn(mWork, nextOp)
            /\ nextOp' = nextOp + 1
       ELSE /\ faOps' = ops1
            /\ UNCHANGED <<mWork, nextOp>>

\* .then((bytesWritten) => (bytesWritten !== data.length) ? reject(...) : resolve(synced))
AddChunkDone(o) ==
  [o EXCEPT !.pc = "settled", !.link = "resolved",
            !.result = IF o.bytesWritten # DataLength THEN "incomplete write"
                       ELSE IF o.synced THEN "true" ELSE "false"]

\* the promise the chain of operation i was attached to has settled: a rejection
\* skips the .then handlers, a resolution calls the first of them
FaStart(i, answer) ==
  LET o == faOps[i]
      p == PredState(i)
      r == [o EXCEPT !.ran = TRUE]
  IN
  /\ o.pc = "wait"
  /\ p # "pending"
  /\ IF p # "resolved"
       THEN IF o.kind = "addChunk"
              THEN /\ AddChunkCatch(o, i, p, answer)
                   /\ UNCHANGED <<mFD, mTotalSize>>
              ELSE /\ answer = "none"
                   /\ faOps' = [faOps EXCEPT ![i] = Settled(o, p)]
                   /\ UNCHANGED <<mWork, nextOp, mFD, mTotalSize>>
       ELSE CASE o.kind = "setTotalSize" ->
                   /\ answer = "none"
                   /\ mTotalSize' = o.size
                   /\ faOps' = [faOps EXCEPT ![i] = Settled(r, "resolved")]
                   /\ UNCHANGED <<mWork, nextOp, mFD>>
              [] o.kind = "rename" ->
                   /\ answer = "none"
                   /\ faOps' = [faOps EXCEPT ![i] = [r EXCEPT !.pc = "newName"]]
                   /\ UNCHANGED <<mWork, nextOp, mFD, mTotalSize>>
              [] o.kind = "addChunk" ->
                   IF IsClosed
                     THEN /\ AddChunkCatch(r, i, "ProcessCanceled", answer)
                          /\ UNCHANGED <<mFD, mTotalSize>>
                     ELSE /\ answer = "none"
                          /\ faOps' = [faOps EXCEPT ![i] = [r EXCEPT !.pc = "write",
                                                                     !.fd = mFD,
                                                                     !.wrote = TRUE]]
                          /\ UNCHANGED <<mWork, nextOp, mFD, mTotalSize>>
              [] OTHER ->
                   /\ answer = "none"
                   /\ IF ~IsClosed
                        THEN /\ mFD' = "undefined"
                             /\ faOps' = [faOps EXCEPT ![i] = [r EXCEPT !.pc = "fsync",
                                                                        !.fd = mFD,
                                                                        !.fsyncs = @ + 1]]
                        ELSE /\ faOps' = [faOps EXCEPT ![i] = Settled(r, "resolved")]
                             /\ UNCHANGED mFD
                   /\ UNCHANGED <<mWork, nextOp, mTotalSize>>
  /\ UNCHANGED <<fdOpen, mFileName, mWritten, mLastFlushedTime, faFaults>>
  /\ UNCHANGED <<workerVars, orchVars, actVars>>

\* rename: Promise.resolve(newName), fs.closeAsync(this.mFD), fs.renameAsync,
\* fs.openAsync settle in turn; a rejection leaves the chain rejected
RenameStep(i, out) ==
  LET o       == faOps[i]
      natural == IF o.pc = "closeOld" THEN OnDescriptor(mFD) ELSE "ok"
      res     == FaResult(natural, out)
      c       == [o EXCEPT !.closes = IF o.pc = "closeOld" THEN @ + 1 ELSE @,
                           !.faulted = @ \/ (natural = "ok" /\ out # "ok")]
  IN
  /\ o.kind = "rename"
  /\ o.pc \in {"newName", "closeOld", "rename", "open"}
  /\ natural # "ok" => out = "ok"
  /\ out # "ok" => faFaults < MaxFaFaults
  /\ faFaults' = IF out = "ok" THEN faFaults ELSE faFaults + 1
  /\ faOps' = [faOps EXCEPT ![i] =
                 IF res # "ok" THEN Settled(c, res)
                 ELSE CASE o.pc = "newName"  -> [c EXCEPT !.pc = "closeOld"]
                        [] o.pc = "closeOld" -> [c EXCEPT !.pc = "rename"]
                        [] o.pc = "rename"   -> [c EXCEPT !.pc = "open"]
                        [] OTHER             -> Settled(c, "resolved")]
  /\ fdOpen' = IF res # "ok" THEN fdOpen
               ELSE IF o.pc = "closeOld" THEN FALSE
               ELSE IF o.pc = "open" THEN TRUE
               ELSE fdOpen
  /\ mFileName' = IF res = "ok" /\ o.pc = "rename" THEN "resolved" ELSE mFileName
  /\ mFD' = IF res = "ok" /\ o.pc = "open" THEN "fd" ELSE mFD
  /\ UNCHANGED <<mWork, nextOp, mTotalSize, mWritten, mLastFlushedTime>>
  /\ UNCHANGED <<workerVars, orchVars, actVars>>

\* addChunk: fsFast.write settles with bytesWritten, or rejects; a write that is due
\* (by size or by time) is followed by fs.fsyncAsync
WriteDone(i, out, bytesWritten, flush, answer) ==
  LET o       == faOps[i]
      natural == OnDescriptor(o.fd)
      res     == FaResult(natural, out)
      injected == (natural = "ok" /\ out # "ok") \/ bytesWritten # DataLength
      w       == [o EXCEPT !.bytesWritten = bytesWritten, !.synced = flush,
                           !.fsyncs = IF flush THEN @ + 1 ELSE @,
                           !.faulted = @ \/ injected]
  IN
  /\ o.kind = "addChunk" /\ o.pc = "write"
  /\ natural # "ok" => out = "ok"
  /\ injected => faFaults < MaxFaFaults
  /\ faFaults' = IF injected THEN faFaults + 1 ELSE faFaults
  /\ IF res # "ok"
       THEN /\ bytesWritten = DataLength /\ ~flush
            /\ AddChunkCatch([o EXCEPT !.faulted = @ \/ injected], i, res, answer)
            /\ UNCHANGED <<mWritten, mLastFlushedTime>>
       ELSE /\ answer = "none"
            /\ mLastFlushedTime = 0 => flush
            /\ mWritten' = mWritten + bytesWritten
            /\ mLastFlushedTime' = IF flush THEN 1 ELSE mLastFlushedTime
            /\ faOps' = [faOps EXCEPT ![i] = IF flush THEN [w EXCEPT !.pc = "flush"]
                                             ELSE AddChunkDone(w)]
            /\ UNCHANGED <<mWork, nextOp>>
  /\ UNCHANGED <<mFD, fdOpen, mFileName, mTotalSize>>
  /\ UNCHANGED <<workerVars, orchVars, actVars>>

\* addChunk: fs.fsyncAsync(this.mFD) settles
FlushDone(i, out, answer) ==
  LET o       == faOps[i]
      natural == OnDescriptor(mFD)
      res     == FaResult(natural, out)
      f       == [o EXCEPT !.faulted = @ \/ (natural = "ok" /\ out # "ok")]
  IN
  /\ o.kind = "addChunk" /\ o.pc = "flush"
  /\ natural # "ok" => out = "ok"
  /\ out # "ok" => faFaults < MaxFaFaults
  /\ faFaults' = IF out = "ok" THEN faFaults ELSE faFaults + 1
  /\ IF res # "ok"
       THEN AddChunkCatch(f, i, res, answer)
       ELSE /\ answer = "none"
            /\ faOps' = [faOps EXCEPT ![i] = AddChunkDone(f)]
            /\ UNCHANGED <<mWork, nextOp>>
  /\ UNCHANGED <<mFD, fdOpen, mFileName, mTotalSize, mWritten, mLastFlushedTime>>
  /\ UNCHANGED <<workerVars, orchVars, actVars>>

\* what follows fs.fsyncAsync(fd) of close: .catch({ code: 'EBADF' }) and
\* .catch({ code: 'ENOENT' }) resolve, then fs.closeAsync(fd)
AfterCloseFsync(res) == IF res \in {"ok", "EBADF", "ENOENT"} THEN "closeFd" ELSE "rejected"

\* close: fs.fsyncAsync(fd), then fs.closeAsync(fd), settle
CloseStep(i, out) ==
  LET o       == faOps[i]
      natural == OnDescriptor(o.fd)
      res     == FaResult(natural, out)
      c       == [o EXCEPT !.faulted = @ \/ (natural = "ok" /\ out # "ok")]
  IN
  /\ o.kind = "close"
  /\ o.pc \in {"fsync", "closeFd"}
  /\ natural # "ok" => out = "ok"
  /\ out # "ok" => faFaults < MaxFaFaults
  /\ faFaults' = IF out = "ok" THEN faFaults ELSE faFaults + 1
  /\ faOps' = [faOps EXCEPT ![i] =
                 IF o.pc = "fsync"
                   THEN IF AfterCloseFsync(res) = "closeFd"
                          THEN [c EXCEPT !.pc = "closeFd", !.closes = @ + 1]
                          ELSE Settled(c, res)
                   ELSE Settled(c, IF res = "ok" THEN "resolved" ELSE res)]
  /\ fdOpen' = IF o.pc = "closeFd" /\ res = "ok" THEN FALSE ELSE fdOpen
  /\ UNCHANGED <<mWork, nextOp, mFD, mFileName, mTotalSize, mWritten, mLastFlushedTime>>
  /\ UNCHANGED <<workerVars, orchVars, actVars>>

Answers == {"none", "Retry", "Cancel"}

NextAssembler ==
  \/ \E size \in Sizes : SetTotalSize(size)
  \/ Rename
  \/ AddChunk
  \/ Close
  \/ \E i \in Ops, answer \in Answers : FaStart(i, answer)
  \/ \E i \in Ops, out \in {"ok"} \cup FaErrors : RenameStep(i, out)
  \/ \E i \in Ops, out \in {"ok"} \cup FaErrors, bytesWritten \in {DataLength, ShortLength},
        flush \in BOOLEAN, answer \in Answers : WriteDone(i, out, bytesWritten, flush, answer)
  \/ \E i \in Ops, out \in {"ok"} \cup FaErrors, answer \in Answers : FlushDone(i, out, answer)
  \/ \E i \in Ops, out \in {"ok"} \cup FaErrors : CloseStep(i, out)

Init == WorkerInit /\ OrchInit /\ ActInit /\ FaInit

\* the activation handlers at rest: the staging folder in place, a valid method configured
ActQuiet ==
  /\ dirs = [d \in StagingDirs |-> "own"]
  /\ activator = "old"
  /\ methods = [registered |-> TRUE, applicable |-> TRUE,
                supported |-> << "symlink", "hardlink" >>, toUse |-> "undefined"]

\* the worker alone, the orchestrator at rest
LinkInit == Init /\ ActQuiet /\ setup = "ok" /\ installationPath["m2"] = "modB"

\* the orchestrator alone, the worker at rest on an empty deploy directory
RemoveInit == Init /\ ActQuiet /\ \A d \in Dests : ~dirExists[d]

SpecRemove == RemoveInit /\ [][NextRemove]_vars

\* game-mode-activated alone, in every configuration of folders and methods
ActivateInit ==
  /\ Init
  /\ setup \in {"ok", "undiscovered"}
  /\ installationPath["m2"] = "modB"
  /\ \A d \in Dests : ~dirExists[d]

SpecActivate == ActivateInit /\ [][NextActivate]_vars

\* the catalog events together, with the folders and the method in place
ReconcileInit == Init /\ ActQuiet /\ setup = "noDeployPath" /\ \A d \in Dests : ~dirExists[d]

SpecReconcile == ReconcileInit /\ [][NextReconcile]_vars

NextWorker ==
  \/ \E d \in Dests : ReceiveLinkFile(d)
  \/ \E d \in Dests : ReceiveRemoveLink(d)
  \/ \E n \in Nums, out \in Outcomes : FsOpSettles(n, out)
  \/ \E n \in Nums : SymlinkRace(n)

SpecWorker == LinkInit /\ [][NextWorker]_vars

\* the worker with every kind of message and the end of the channel; a filesystem
\* attempt succeeds or fails for good
NextChannel ==
  \/ \E d \in Dests : ReceiveLinkFile(d)
  \/ \E d \in Dests : ReceiveRemoveLink(d)
  \/ \E n \in Nums, out \in {"ok", "EISDIR"} : FsOpSettles(n, out)
  \/ ReceiveQuit
  \/ ReceiveUnknown
  \/ Disconnect

SpecChannel == LinkInit /\ [][NextChannel]_vars

\* the file assembler alone, everything else at rest
AssemblerInit == LinkInit /\ \A d \in Dests : ~dirExists[d]

SpecAssembler == AssemblerInit /\ [][NextAssembler]_vars

\* every pending filesystem attempt (and retry timer) of the worker eventually settles
SpecWorkerFair ==
  SpecWorker /\ \A n \in Nums : WF_vars(\E out \in Outcomes : FsOpSettles(n, out))

(***************************************************************************)
(* Properties of onRemoveMod and undeploy.                                 *)
(***************************************************************************)
\* the requests whose cycle is in progress: loadActivation was called and neither
\* saveActivation nor a rejection has ended the chain
Cycling == {r \in Removes : rm[r].pc \in CyclePcs \ {"normalize"}}

\* the undeploy chain of r rejected before saveActivation was reached
CycleFailed(r) ==
  /\ rm[r].cycle
  /\ rm[r].undeployErr \notin {"none", "null"}
  /\ rm[r].stage # "finalize"

\* undeployMod() of r resolved: undeploy resolved or was skipped, or it rejected with
\* ENOTFOUND and the user chose Ignore, or Deploy and the deployment pass succeeded
UndeployModResolved(r) ==
  \/ rm[r].undeployErr = "null"
  \/ /\ rm[r].undeployErr = "ENOTFOUND"
     /\ \/ rm[r].recovery = "Ignore"
        \/ rm[r].recovery = "Deploy" /\ rm[r].deployErr = "null"

\* the deletion of the staged files of r resolved: not needed (no installation path),
\* done, or nothing was there (ENOENT)
DeletionResolved(r) ==
  \/ rm[r].deleteRes = "none" /\ installationPath[rm[r].mod] = "undefined"
  \/ rm[r].deleteRes \in {"ok", "ENOENT"} /\ rm[r].deletes \in 1..2

\* C1: for one game at most one undeploy cycle (loadActivation and prepare up to
\* saveActivation or cancel) is in progress at any time: the cycle of a remove-mod
\* request that arrives during another one starts only after that one has completed.
C1_OneCycleAtATime == Cardinality(Cycling) <= 1

\* C2: a cycle calls saveActivation only after loadActivation, prepare, deactivate and
\* finalize succeeded; when one of them fails it does not call saveActivation and the
\* persisted manifest is the one from before the cycle started.
C2_FailedCycleKeepsManifest ==
  \A r \in Removes :
    /\ rm[r].saves > 0 => rm[r].stage \in {"finalize", "save"}
    /\ CycleFailed(r) => rm[r].saves = 0 /\ rm[r].atFail = rm[r].atStart

\* C3 as stated: removeMod is dispatched only after undeploy and the deletion of the
\* staged files both succeeded, and when a step before it failed the catalog entry is
\* as it was when the operation ends.
C3_RemoveOnlyAfterSuccess ==
  \A r \in Removes :
    /\ rm[r].dispatched => rm[r].undeployErr = "null" /\ DeletionResolved(r)
    /\ (rm[r].pc = "done" /\ Removable(rm[r].arrival) /\ ~rm[r].dispatched)
         => mods[rm[r].mod] = rm[r].arrival

\* C3, amended: a remove-mod operation dispatches removeMod only after its undeployMod
\* step resolved (undeploy succeeded or was skipped, or it failed with ENOTFOUND and the
\* user chose Ignore or a successful deployment pass) and its deletion step resolved
\* (deleted, ENOENT tolerated, ENOTEMPTY retried once); an operation in which
\* undeployMod or the deletion rejected dispatches no removeMod, and the catalog
\* changes only by the removeMod of an operation whose two steps resolved.
C3_RemoveOnlyAfterResolved ==
  /\ [](\A r \in Removes :
          /\ rm[r].dispatched => UndeployModResolved(r) /\ DeletionResolved(r)
          /\ (rm[r].pc = "done" /\ Removable(rm[r].arrival)
               /\ ~(UndeployModResolved(r) /\ DeletionResolved(r)))
               => ~rm[r].dispatched)
  /\ [][mods' # mods =>
          \E r \in Removes :
            /\ ~rm[r].dispatched /\ rm'[r].dispatched
            /\ mods' = [mods EXCEPT ![rm[r].mod] = "absent"]]_vars

\* an operation removed its mod although undeploy had failed (ENOTFOUND, ignored), and
\* another one ended on a failed deletion with its catalog entry still in place
C3_Witness ==
  \E r1, r2 \in Removes :
    /\ rm[r1].dispatched /\ rm[r1].undeployErr = "ENOTFOUND" /\ rm[r1].recovery = "Ignore"
    /\ rm[r2].pc = "done" /\ rm[r2].deleteRes = "EPERM" /\ rm[r2].deletes = 1
    /\ mods[rm[r2].mod] = rm[r2].arrival

\* C4: remove-mod on a mod whose state is neither downloaded nor installed ends at once:
\* the callback gets ProcessCanceled, the catalog, the staged files and the manifest
\* stay as they are, no deployment method call is made and nothing is deleted.
C4_NotRemovableIsCanceled ==
  /\ [](\A r \in Removes :
          (rm[r].pc # "idle" /\ rm[r].arrival \notin {"downloaded", "installed"})
            => /\ rm[r].pc = "done"
               /\ ~rm[r].dispatched /\ ~rm[r].cycle
               /\ rm[r].calls = << >> /\ rm[r].deletes = 0 /\ rm[r].saves = 0
               /\ rm[r].hasCb => (rm[r].cbCalls = 1 /\ rm[r].cbErr = "ProcessCanceled")
               /\ ~rm[r].hasCb => rm[r].cbCalls = 0)
  /\ [][\A r \in Removes :
          (rm[r].pc = "idle" /\ rm'[r].pc # "idle"
             /\ rm'[r].arrival \notin {"downloaded", "installed"})
            => /\ mods' = mods /\ staged' = staged /\ manifest' = manifest
               /\ enabled' = enabled /\ activity' = activity]_vars

\* remove-mod with a callback arrived for the mod that is being installed
C4_Witness ==
  \E r \in Removes :
    /\ rm[r].arrival = "installing" /\ rm[r].hasCb
    /\ rm[r].cbErr = "ProcessCanceled" /\ mods[rm[r].mod] = "installing"

\* the undeploy chain of r rejected in a step that follows prepare
FailedAfterPrepare(r) ==
  /\ rm[r].stepErr # "none"
  /\ rm[r].stage \in {"prepare", "deactivate", "finalize"}

\* C14: whenever prepare has run and a later step of the undeploy chain fails
\* (deactivate, finalize or saveActivation), the method's cancel is invoked when the
\* method defines it, and the cycle has saved no manifest.
C14_CancelAfterPrepare ==
  \A r \in Removes :
    FailedAfterPrepare(r) =>
      /\ setup # "noCancel" => Len(SelectSeq(rm[r].calls, LAMBDA c : c = "cancel")) = 1
      /\ rm[r].stage # "finalize" => rm[r].saves = 0

\* C15: when cancel itself throws or rejects during a failed undeploy cycle, undeploy()
\* still rejects with the failure of the step, and no rejection is left unhandled.
C15_CancelFailureNotRaised ==
  \A r \in Removes :
    rm[r].cancelRes \in {"throws", "rejects"} =>
      /\ rm[r].undeployErr = rm[r].stepErr
      /\ ~rm[r].unhandled

\* C20: the reconciliation of game-mode-activated and of paths-changed removes a
\* catalog entry only when the mod is not on disk and its state, when the
\* reconciliation runs, is downloaded or installed; an entry in any other state stays
\* (a removeMod dispatched for a mod that has no entry any more removes nothing)
C20_ReconcileRemovesOnlySettled ==
  \A e \in ga.removed \cup pr.removed :
    e.state # "absent" =>
      /\ ~e.onDisk
      /\ e.state \in {"downloaded", "installed"}

\* C11: during game-mode-activated a staging directory gets its tag written, and the
\* catalog is reconciled against it, only if its tag named the current instance or the
\* user confirmed its use in a prompt
C11_AdoptedOnlyIfTrusted ==
  \A e \in ga.adopted : e.tag = "own" \/ e.confirmed

\* C12: a validation of a directory whose tag names another instance prompts exactly
\* once, and when that prompt is declined it ends with UserCanceled, the directory not
\* becoming the staging path
C12_ForeignTagPromptsOnce ==
  \A v \in ga.validations :
    v.tag = "foreign" =>
      /\ v.prompts = 1
      /\ v.declined => v.result = "UserCanceled"

\* C13: a validation of a directory whose tag names the current instance accepts and
\* shows no prompt
C13_OwnTagAcceptedSilently ==
  \A v \in ga.validations :
    v.tag = "own" => v.prompts = 0 /\ v.result = "accepted"

C13_Witness ==
  /\ \E v \in ga.validations : v.tag = "own"
  /\ ga.instPath = "dirB"
  /\ ga.pc = "writeTag"

\* C16: the clean-up calls of the old method come in the order prePurge, purge for
\* each mod type, postPurge; postPurge is invoked once, after the purges end, and
\* never unless prePurge was invoked before it in the same activation
C16_CleanupOrder ==
  LET calls == ga.calls
  IN
  /\ \A i \in 1..Len(calls) :
       /\ calls[i] = "prePurge" => i = 1
       /\ calls[i] = "postPurge" => i = Len(calls) /\ i > 1 /\ calls[1] = "prePurge"
  /\ ga.pc \in {"refresh", "done"} /\ calls # << >> => calls[Len(calls)] = "postPurge"

\* C17: once the clean-up of the old method has begun, a failure of prePurge, of a
\* purge or of postPurge does not keep the activation from selecting the replacement
\* method (when one is supported) and from reconciling the mods
C17_CleanupFailureNotFatal ==
  ga.pc = "done" /\ ga.calls # << >> /\ ga.calls[1] = "prePurge" =>
    /\ ga.refreshed
    /\ methods.supported # << >> => ga.setActivator = methods.supported[1]

\* C18: when the configured method is not valid for the game and is replaced, the
\* activator setting becomes the id of the first supported method; when the
\* configured method proves to be applicable after all, the setting is not changed
C18_FirstSupportedWins ==
  /\ ga.setActivator # "none" =>
       /\ ga.change /\ methods.toUse = "undefined"
       /\ ga.setActivator = methods.supported[1]
       /\ activator = methods.supported[1]
  /\ ga.pc # "idle" /\ methods.toUse = "undefined"
       /\ methods.registered /\ methods.applicable =>
       /\ ga.setActivator = "none"
       /\ activator = "old"

C18_Witness ==
  /\ ga.pc = "done"
  /\ ga.setActivator = "symlink"
  /\ activator = "symlink"
  /\ ga.calls # << >>

\* C19: when the configured method is not valid for the game and no method is
\* supported, no method is selected and an error that cannot be reported is shown,
\* whether or not a method had been configured before
C19_NoSupportedMethod ==
  /\ ga.pc # "idle" /\ setup # "undiscovered"
  /\ methods.toUse = "undefined" /\ methods.supported = << >>
  /\ ~(methods.registered /\ methods.applicable)
  => /\ ga.setActivator = "none"
     /\ activator \in {"undefined", "old"}
     /\ \E n \in notes : ~n.allowReport

\* C21: remove-mod disables the mod in the profile before any deployment method call,
\* before the staged files are deleted and before the catalog entry is removed, so no
\* mod is ever absent from the catalog and still enabled
C21_DisabledBeforeRemoval ==
  /\ \A m \in ModIds : mods[m] = "absent" => ~enabled[m]
  /\ \A r \in Removes :
       rm[r].calls # << >> \/ rm[r].deletes > 0 \/ rm[r].dispatched \/ rm[r].cycle =>
         ~enabled[rm[r].mod]

C21_Witness ==
  /\ rm[1].pc = "done" /\ rm[1].dispatched /\ mods[rm[1].mod] = "absent"
  /\ rm[2].pc = "done" /\ rm[2].stepErr # "none" /\ ~rm[2].dispatched
  /\ rm[2].calls # << >> /\ mods[rm[2].mod] # "absent" /\ ~enabled[rm[2].mod]

\* C22: when undeploy of a remove-mod fails with code ENOTFOUND or ENOENT the user is
\* asked to Ignore or to Deploy; after Deploy the staged files are deleted and the
\* catalog entry removed only once the deployment pass reported success; after Ignore
\* the removal goes on without a deployment pass
C22_MissingFilesDialog ==
  \A r \in Removes :
    rm[r].undeployErr \in {"ENOTFOUND", "ENOENT"} =>
      /\ rm[r].pc = "done" => rm[r].recovery \in {"Ignore", "Deploy"}
      /\ rm[r].recovery = "Deploy" /\ (rm[r].deletes > 0 \/ rm[r].dispatched) =>
           rm[r].deployErr = "null"
      /\ rm[r].recovery = "Ignore" => rm[r].deployErr = "none"

\* C23: a remove-mod request that was given a callback invokes it exactly once: with
\* null if and only if the mod was removed from the catalog or there was nothing to
\* remove, with the error otherwise
C23_CallbackOnceWithOutcome ==
  \A r \in Removes :
    rm[r].hasCb =>
      /\ rm[r].cbCalls <= 1
      /\ rm[r].pc = "done" =>
           /\ rm[r].cbCalls = 1
           /\ rm[r].cbErr = "null" <=> (rm[r].dispatched \/ rm[r].arrival = "absent")

\* C24: an error notification that shows a filesystem error, from the purge of the
\* migration or from the reconciliation, can be reported exactly when the error code
\* is neither ENOENT nor ENOTFOUND
C24_ReportableUnlessMissing ==
  \A n \in notes :
    n.code # "none" => (n.allowReport <=> n.code \notin {"ENOENT", "ENOTFOUND"})

\* C25: a ProcessCanceled or a UserCanceled raised in a purge or undeploy chain is
\* never shown to the user as an error notification, in game-mode-activated and in
\* remove-mod alike
C25_CancellationNotShown ==
  /\ \A n \in notes : n.code \notin {"ProcessCanceled", "UserCanceled"}
  /\ \A r \in Removes :
       rm[r].pc = "done" /\ rm[r].undeployErr \in {"ProcessCanceled", "UserCanceled"} =>
         rm[r].notified = "none"

\* C30: the deletion of a mod's staged files is attempted once more after ENOTEMPTY,
\* and only then; ENOENT on either attempt counts as success; a second ENOTEMPTY or
\* any other error fails the removal, which then dispatches no removeMod
C30_DeleteRetriedOnce ==
  \A r \in Removes :
    /\ rm[r].deletes <= 2
    /\ rm[r].deletes = 2 => rm[r].firstDelete = "ENOTEMPTY"
    /\ rm[r].pc = "remove" /\ rm[r].deletes = 1 => rm[r].deleteRes = "ENOTEMPTY"
    /\ rm[r].firstDelete = "ENOTEMPTY" /\ rm[r].pc = "done" => rm[r].deletes = 2
    /\ rm[r].pc = "done" /\ rm[r].deletes >= 1 =>
         (rm[r].dispatched <=> rm[r].deleteRes \in {"ok", "ENOENT"})
    /\ rm[r].pc = "done" /\ rm[r].deletes >= 1 /\ rm[r].deleteRes \notin {"ok", "ENOENT"} =>
         /\ rm[r].hasCb => rm[r].cbErr = rm[r].deleteRes
         /\ ~rm[r].hasCb => rm[r].notified = "Failed to remove mod"

\* one removal failed on its second ENOTEMPTY, its mod still in the catalog; another
\* went through on ENOENT
C30_Witness ==
  /\ rm[1].pc = "done" /\ rm[1].deletes = 2 /\ rm[1].deleteRes = "ENOTEMPTY"
  /\ ~rm[1].dispatched /\ mods[rm[1].mod] # "absent"
  /\ rm[2].pc = "done" /\ rm[2].deletes = 1 /\ rm[2].deleteRes = "ENOENT"
  /\ rm[2].dispatched /\ mods[rm[2].mod] = "absent"

\* C31: in an undeploy cycle the method's cancel is invoked only if prepare was invoked
\* earlier in the same cycle; a rejection of getNormalizeFunc or of loadActivation,
\* which precede prepare, triggers no cancel.
C31_CancelOnlyAfterPrepare ==
  \A r \in Removes :
    \A i \in 1..Len(rm[r].calls) :
      rm[r].calls[i] = "cancel" => \E j \in 1..(i - 1) : rm[r].calls[j] = "prepare"

\* C32: when resolving the staging directory fails in game-mode-activated ('Quit
\* Vortex' was answered, or Reinitialize failed to purge or to recreate the
\* directory), nothing further happens in that activation: no call of the old
\* deployment method, no setActivator, no staging tag written, no reconciliation.
C32_StagingFailureEndsActivation ==
  ga.stagingFailed \in {"Quit Vortex", "fallbackPurge", "ensureDirWritable"} =>
    /\ ga.calls = << >>
    /\ ga.setActivator = "none"
    /\ ga.adopted = {}
    /\ ~ga.refreshed

(***************************************************************************)
(* Properties of the link worker.                                          *)
(***************************************************************************)
Done(n) == req[n].pc = "done"

\* the 'completed' payloads emitted with sequence number n
CompletedFor(n) == SelectSeq(completed, LAMBDA m : m.num = n)

\* the err of the completed message of a finished request
ErrOf(n) == CompletedFor(n)[1].err

\* the step is one of request n's handler chain
StepOf(n) == req[n].message # "none" /\ req'[n] # req[n]

\* C5: a remove-link request removes the destination if and only if lstat found a
\* symbolic link there: no step of a remove-link chain changes a real file or a real
\* directory at the destination, the chain calls remove only after lstat reported a
\* symlink, and a request that found a symlink and completed without error removed it.
C5_RemoveLinkOnlySymlink ==
  /\ [](\A n \in Nums : req[n].message = "remove-link" =>
          /\ req[n].removed => req[n].stats = "symlink"
          /\ req[n].pc = "unlink" => req[n].stats = "symlink"
          /\ (Done(n) /\ req[n].stats \in {"file", "dir"}) =>
               (~req[n].removed /\ ErrOf(n) = "null")
          /\ (Done(n) /\ req[n].stats = "symlink" /\ ErrOf(n) = "null") =>
               req[n].removed)
  /\ [][\A n \in Nums : (req[n].message = "remove-link" /\ StepOf(n)) =>
          LET d == req[n].destination
          IN  fsKind[d] \in {"file", "dir"} => fsKind'[d] = fsKind[d]]_vars

\* a remove-link request examined a real file or directory, completed, and the file or
\* directory is still at the destination
C5_Witness ==
  \E n \in Nums :
    /\ req[n].message = "remove-link" /\ Done(n)
    /\ req[n].stats \in {"file", "dir"}
    /\ fsKind[req[n].destination] = req[n].stats
    /\ ErrOf(n) = "null"

\* C6: a link-file request whose destination is an existing real directory leaves the
\* directory in place and ends with report 'not-supported' and completed carrying an error.
C6_RealDirectoryUntouched ==
  \A n \in Nums :
    (req[n].message = "link-file" /\ req[n].found = "dir") =>
      /\ fsKind[req[n].destination] = "dir"
      /\ Done(n) => (req[n].reported /\ ErrOf(n) # "null")

\* C7: a doFS operation is attempted at most 6 times (whenever an attempt is pending, at
\* most 5 were made before it); an attempt is retried only after it failed with a code
\* of RETRY_ERRORS, and a failure with any other code ends the operation at once with
\* that code, no retry being scheduled.
C7_DoFSBounded ==
  /\ [](\A n \in Nums : req[n].attempts <= 5 /\ req[n].tries >= 0)
  /\ [][\A n \in Nums, out \in Outcomes :
          (FsOpSettles(n, out) /\ req[n].pc \in DoFSPcs) =>
            LET res     == Result(OpOf(req[n].pc), req[n].destination, out)
                retried == req'[n].pc = req[n].pc /\ req'[n].delays = req[n].delays + 1
            IN  /\ retried => (res \in RETRY_ERRORS /\ req[n].attempts < 5)
                /\ (res # "ok" /\ res \notin RETRY_ERRORS) =>
                     /\ ~retried
                     /\ req'[n].pc # req[n].pc
                     /\ req'[n].delays = req[n].delays
                     /\ Done(n)' => req'[n].finalErr = res]_vars

\* a request failed after its operation was attempted six times
C7_Witness ==
  \E n \in Nums : Done(n) /\ req[n].exhausted /\ req[n].late

\* C8 as stated: a link-file request whose failures are all EBUSY and stop within 5
\* retries completes with err null after at most 5 retry delays in total.
C8_AtMostFiveDelays ==
  \A n \in Nums :
    (req[n].message = "link-file" /\ Done(n) /\ req[n].onlyBusy /\ ~req[n].late) =>
      (ErrOf(n) = "null" /\ req[n].delays <= 5)

\* C8 amended: a link-file request whose ensureDir succeeded and whose doFS operations
\* fail only with EBUSY, each no more than 5 times, completes with err null; it runs
\* two doFS operations and waits through at most 5 retry delays for each of them.
C8_FiveDelaysPerOperation ==
  \A n \in Nums :
    (req[n].message = "link-file" /\ Done(n) /\ req[n].onlyBusy /\ ~req[n].late
       /\ req[n].ops > 0) =>
      /\ ErrOf(n) = "null"
      /\ req[n].linked
      /\ req[n].ops = 2
      /\ req[n].delays <= DefaultTries * req[n].ops

\* a link-file request completed with err null after more than 5 retry delays, all of
\* them after EBUSY failures
C8_Witness ==
  \E n \in Nums :
    /\ req[n].message = "link-file" /\ Done(n) /\ req[n].onlyBusy /\ ~req[n].late
    /\ ErrOf(n) = "null" /\ req[n].delays > 5

\* C9 as stated: a link-file request that ran out of retries emits exactly one completed
\* with a non-null err, leaves no symlink at the destination, and the err is the code the
\* operation first failed with.
C9_FailsCleanlyOriginalCode ==
  \A n \in Nums :
    (req[n].message = "link-file" /\ Done(n) /\ req[n].exhausted) =>
      /\ Len(CompletedFor(n)) = 1
      /\ ErrOf(n) # "null"
      /\ fsKind[req[n].destination] # "symlink"
      /\ ErrOf(n) = req[n].firstErr

\* C9 amended: a link-file request that ran out of retries emits exactly one completed
\* with a non-null err, has created no symlink itself, and the err is the transient code
\* of the last failed attempt.
C9_FailsCleanlyLastCode ==
  \A n \in Nums :
    (req[n].message = "link-file" /\ Done(n) /\ req[n].exhausted) =>
      /\ Len(CompletedFor(n)) = 1
      /\ ErrOf(n) # "null"
      /\ ~req[n].linked
      /\ ErrOf(n) = req[n].finalErr
      /\ ErrOf(n) \in RETRY_ERRORS

\* a link-file request ran out of retries removing a stale symlink that is still there,
\* and surfaced a code other than the one its operation first failed with
C9_Witness ==
  \E n \in Nums :
    /\ req[n].message = "link-file" /\ Done(n) /\ req[n].exhausted
    /\ fsKind[req[n].destination] = "symlink"
    /\ req[n].firstErr # ErrOf(n)

\* C10: every received link-file or remove-link request eventually gets exactly one
\* completed message with its own num, err null exactly when its chain succeeded, and no
\* completed message carries a num that was not requested.
C10_ExactlyOneCompleted ==
  /\ [](\A i \in 1..Len(completed) :
          completed[i].num \in Nums /\ req[completed[i].num].message # "none")
  /\ [](\A n \in Nums :
          /\ Len(CompletedFor(n)) <= 1
          /\ Len(CompletedFor(n)) = 1 <=> Done(n)
          /\ Done(n) => (ErrOf(n) = "null" <=> req[n].finalErr = "null")
          /\ (Done(n) /\ req[n].message = "link-file") =>
               (ErrOf(n) = "null" <=> req[n].linked))
  /\ []<>(\A n \in Nums : req[n].message # "none" => Len(CompletedFor(n)) = 1)

\* the second request completed before the first, which is still in flight
C10_Witness ==
  /\ Len(completed) = 1
  /\ completed[1].num = 2
  /\ req[1].message # "none" /\ ~Done(1)

\* C26: a link-file request writes the tag file only into a directory it created
\* itself; when the directory of the destination existed already it writes no tag and
\* removes what is at the destination before it creates the symlink
C26_TagOnlyInNewDirectory ==
  /\ \A d \in Dests :
       tagFile[d] => \E n \in Nums : req[n].destination = d /\ req[n].tagged
  /\ \A n \in Nums :
       /\ req[n].tagged \/ req[n].pc = "writeTag" => req[n].created = "yes"
       /\ req[n].created = "no" =>
            /\ ~req[n].tagged
            /\ req[n].pc \in {"symlink1", "removeStale", "symlink2"} \/ req[n].linked =>
                 req[n].cleared

C26_Witness ==
  \E n \in Nums :
    /\ req[n].message = "link-file" /\ req[n].pc = "done"
    /\ req[n].created = "no" /\ req[n].found = "file"
    /\ req[n].cleared /\ req[n].linked
    /\ ~tagFile[req[n].destination]

C28_CompletedCarriesOwnNum ==
  /\ \A n \in Nums : req[n].message # "none" => n < nextNum
  /\ \A n \in Nums : n >= nextNum => req[n].pc = "idle" /\ req[n].message = "none"
  /\ \A i \in 1..Len(completed) :
       /\ completed[i].num \in 1..(nextNum - 1)
       /\ req[completed[i].num].pc = "done"
       /\ completed[i].err = req[completed[i].num].finalErr
       /\ \A j \in 1..Len(completed) : completed[j].num = completed[i].num => j = i

\* the second request has completed while the first, which arrived before it, is
\* waiting on a retry of its operation
C28_Witness ==
  /\ completed = << [err |-> "null", num |-> 2] >>
  /\ req[1].phase = "inflight" /\ req[1].delays > 0 /\ req[1].attempts > 0
  /\ req[2].pc = "done" /\ req[2].delays = 0

\* C29: when the creation of the symlink fails with EEXIST the worker removes the
\* destination and runs the creation once more; whatever that second creation fails
\* with, EEXIST included, nothing is removed or created after it and the request
\* completes with that error
C29_EexistRetriedOnce ==
  \A n \in Nums :
    req[n].message = "link-file" =>
      /\ req[n].symlinks <= 2
      /\ req[n].pc = "removeStale" => req[n].firstLink = "EEXIST" /\ req[n].symlinks = 1
      /\ req[n].symlinks = 2 => req[n].firstLink = "EEXIST" /\ req[n].pc \in {"symlink2", "done"}
      /\ req[n].firstLink \notin {"none", "ok", "EEXIST"} =>
           req[n].pc = "done" /\ req[n].symlinks = 1 /\ req[n].finalErr = req[n].firstLink
      /\ req[n].pc = "done" /\ req[n].symlinks = 2 =>
           /\ req[n].linked <=> req[n].finalErr = "null"
           /\ ErrOf(n) = req[n].finalErr

\* the second creation failed with EEXIST as well and the request completed with it
C29_Witness ==
  \E n \in Nums :
    /\ req[n].pc = "done" /\ req[n].symlinks = 2 /\ req[n].firstLink = "EEXIST"
    /\ req[n].finalErr = "EEXIST" /\ ErrOf(n) = "EEXIST" /\ ~req[n].linked

\* C33: a remove-link request whose lstat finds nothing at the destination changes
\* nothing on disk and is reported as a failure: it ends at once with a completed
\* message whose err has the code ENOENT; a remove-link request that completed with
\* err null did find something at the destination.
C33_MissingDestinationFails ==
  /\ [](\A n \in Nums :
          (req[n].message = "remove-link" /\ Done(n) /\ ErrOf(n) = "null") =>
            req[n].stats \in {"file", "dir", "symlink"})
  /\ [][\A n \in Nums :
          (/\ req[n].message = "remove-link" /\ req[n].pc = "lstat" /\ StepOf(n)
           /\ fsKind[req[n].destination] = "none" /\ faults' = faults) =>
            /\ fsKind' = fsKind /\ dirExists' = dirExists /\ tagFile' = tagFile
            /\ req'[n].pc = "done"
            /\ completed' = Append(completed, [err |-> "ENOENT", num |-> n])]_vars

\* a remove-link request arrived for a destination with nothing at it, no failure was
\* injected, and it completed with ENOENT, the destination still empty
C33_Witness ==
  \E n \in Nums :
    /\ req[n].message = "remove-link" /\ Done(n)
    /\ req[n].found = "none" /\ faults = 0
    /\ fsKind[req[n].destination] = "none"
    /\ CompletedFor(n) = << [err |-> "ENOENT", num |-> n] >>
    /\ req[n].delays = 0

(***************************************************************************)
(* Properties of the file assembler.                                       *)
(***************************************************************************)
\* the chain of operation i has been entered: a handler ran, or a rejection passed
OpStarted(i) == faOps[i].pc \notin {"none", "wait"}
\* the chain of operation i waits on a filesystem call
OpRunning(i) == faOps[i].pc \notin {"none", "wait", "settled"}

\* C34: the operations submitted to a FileAssembler run one at a time, in the order
\* of their submission: none starts before every operation submitted earlier has
\* finished, so at most one is running, and no write or flush of an addChunk is in
\* progress while a rename is between closing the descriptor and opening it again.
C34_OneAtATimeInOrder ==
  /\ \A i \in Ops, j \in Ops : i < j /\ OpStarted(j) => faOps[i].pc = "settled"
  /\ Cardinality({i \in Ops : OpRunning(i)}) <= 1
  /\ \A i \in Ops, j \in Ops :
       faOps[i].pc \in {"rename", "open"} => faOps[j].pc \notin {"write", "flush"}

\* a rename has closed the descriptor and is renaming the file while an addChunk and a
\* close submitted after it wait for their turn
C34_Witness ==
  \E i \in Ops, j \in Ops, k \in Ops :
    /\ i < j /\ j < k
    /\ faOps[i].kind = "rename" /\ faOps[i].pc = "rename" /\ ~fdOpen
    /\ faOps[j].kind = "addChunk" /\ faOps[j].pc = "wait"
    /\ faOps[k].kind = "close" /\ faOps[k].pc = "wait"

\* C35: a failed operation does not block the operations queued after it: a close()
\* submitted after an addChunk or a rename has failed still runs, releases the file
\* descriptor, leaves isClosed() true and resolves (unless a call of its own fails).
C35_CloseRunsAfterFailure ==
  \A c \in Ops :
    (/\ faOps[c].kind = "close" /\ faOps[c].pc = "settled"
     /\ faOps[c].afterFailed /\ ~faOps[c].faulted) =>
      /\ faOps[c].ran
      /\ IsClosed
      /\ ~fdOpen
      /\ faOps[c].result = "resolved"

\* C36: once the handler of a close() has run the assembler stays closed: isClosed()
\* is true from then on, every addChunk submitted after it is rejected with
\* ProcessCanceled and writes no data, and a further close() calls neither fsync nor
\* close on the descriptor.
C36_ClosedForGood ==
  /\ CloseRan => IsClosed
  /\ \A i \in Ops :
       faOps[i].afterClose /\ faOps[i].pc = "settled" =>
         /\ faOps[i].kind = "addChunk" =>
              ~faOps[i].wrote /\ faOps[i].result = "ProcessCanceled"
         /\ faOps[i].kind = "close" => faOps[i].fsyncs = 0 /\ faOps[i].closes = 0

Next ==
  \/ NextWorker
  \/ NextRemove
  \/ NextActivate
  \/ NextReconcile
  \/ NextAssembler
  \/ ReceiveQuit
  \/ ReceiveUnknown
  \/ Disconnect

Spec == Init /\ [][Next]_vars

=============================================================================
